---- MODULE Spec2Model ----
(***************************************************************************)
(* A model of votage.py, the Telegram autoresponder and reminder bot       *)
(* (class AutoResponderBot).  Texts are sequences of one-character         *)
(* strings, timestamps are records with the fields of datetime.datetime,   *)
(* durations are records with the fields of datetime.timedelta.            *)
(***************************************************************************)
EXTENDS Integers, Sequences, FiniteSets, TLC

VARIABLES
    admin_ids,       \* the list admin_ids of _is_admin (a deployment edits it)
    auto_responses,  \* self.auto_responses: user id -> list of AutoResponse
    reminders,       \* self.reminders: list of Reminder
    data_file,       \* the contents of self.data_file (bot_data.json)
    store_ok,        \* whether open(self.data_file, 'w') succeeds right now
    job_queue,       \* context.job_queue / app.job_queue and its pending jobs
    now,             \* the wall clock read by datetime.now()
    started,         \* whether run() has gone past setup_jobs into polling
    ticks,           \* how many times the clock has been advanced
    out              \* what the last handler, job or call did

vars == <<admin_ids, auto_responses, reminders, data_file, store_ok,
          job_queue, now, started, ticks, out>>

(***************************************************************************)
(* Texts                                                                   *)
(***************************************************************************)
Digits == {"0", "1", "2", "3", "4", "5", "6", "7", "8", "9"}
DigitsNoZero == Digits \ {"0"}
UpperChars == <<"A", "B", "C", "D", "E", "F", "G", "H", "I", "J", "K", "L", "M",
                "N", "O", "P", "Q", "R", "S", "T", "U", "V", "W", "X", "Y", "Z">>
LowerChars == <<"a", "b", "c", "d", "e", "f", "g", "h", "i", "j", "k", "l", "m",
                "n", "o", "p", "q", "r", "s", "t", "u", "v", "w", "x", "y", "z">>
Whitespace == {" "}

DigitVal(c) ==
    CASE c = "0" -> 0 [] c = "1" -> 1 [] c = "2" -> 2 [] c = "3" -> 3
      [] c = "4" -> 4 [] c = "5" -> 5 [] c = "6" -> 6 [] c = "7" -> 7
      [] c = "8" -> 8 [] c = "9" -> 9 [] OTHER -> 0

UpperSet == {UpperChars[k] : k \in 1..Len(UpperChars)}
UpperToLower ==
    [c \in UpperSet |-> LowerChars[CHOOSE k \in 1..Len(UpperChars) : UpperChars[k] = c]]

\* str.lower() on one character
char_lower(c) == IF c \in UpperSet THEN UpperToLower[c] ELSE c

\* str.lower()
str_lower(s) == [i \in 1..Len(s) |-> char_lower(s[i])]

\* str.strip(): leading and trailing whitespace removed
str_strip(s) ==
    LET keep == {i \in 1..Len(s) : s[i] \notin Whitespace}
    IN  IF keep = {} THEN <<>>
        ELSE LET lo == CHOOSE i \in keep : \A k \in keep : i <= k
                 hi == CHOOSE i \in keep : \A k \in keep : k <= i
             IN  SubSeq(s, lo, hi)

\* s[a:] for a 0-based start (Python slicing: empty when a >= len(s))
str_from(s, a) == IF a >= Len(s) THEN <<>> ELSE SubSeq(s, a + 1, Len(s))

\* str.startswith
str_startswith(s, p) == Len(s) >= Len(p) /\ SubSeq(s, 1, Len(p)) = p

\* `t in s` for texts: t occurs as a substring of s
str_contains(s, t) ==
    \E i \in 0..(Len(s) - Len(t)) : SubSeq(s, i + 1, i + Len(t)) = t

\* ' '.join(args)
RECURSIVE str_join(_)
str_join(args) ==
    IF Len(args) = 0 THEN <<>>
    ELSE IF Len(args) = 1 THEN args[1]
    ELSE args[1] \o <<" ">> \o str_join(Tail(args))

\* int(text) for a text of decimal digits
RECURSIVE str_int(_)
str_int(s) ==
    IF Len(s) = 0 THEN 0
    ELSE 10 * str_int(SubSeq(s, 1, Len(s) - 1)) + DigitVal(s[Len(s)])

(***************************************************************************)
(* datetime and timedelta (the standard library's arithmetic)              *)
(***************************************************************************)
MINYEAR == 1
MAXYEAR == 9999
MAXORDINAL == 3652059        \* date(9999, 12, 31).toordinal()
MAXDELTADAYS == 999999999    \* timedelta.max.days
DI400Y == 146097
DI100Y == 36524
DI4Y == 1461
SECONDS_PER_DAY == 86400
US_PER_SECOND == 1000000

_is_leap(y) == y % 4 = 0 /\ (y % 100 # 0 \/ y % 400 = 0)

_days_in_month(y, m) ==
    IF m = 2 THEN (IF _is_leap(y) THEN 29 ELSE 28)
    ELSE IF m \in {4, 6, 9, 11} THEN 30 ELSE 31

_days_before_year(y) ==
    LET p == y - 1 IN p * 365 + (p \div 4) - (p \div 100) + (p \div 400)

\* the table _DAYS_BEFORE_MONTH, for a common year
DAYS_BEFORE_MONTH == <<0, 31, 59, 90, 120, 151, 181, 212, 243, 273, 304, 334>>

_days_before_month(y, m) ==
    DAYS_BEFORE_MONTH[m] + (IF m > 2 /\ _is_leap(y) THEN 1 ELSE 0)

_ymd2ord(y, m, d) == _days_before_year(y) + _days_before_month(y, m) + d

_ord2ymd(ordinal) ==
    LET n0   == ordinal - 1
        n400 == n0 \div DI400Y
        r400 == n0 % DI400Y
        n100 == r400 \div DI100Y
        r100 == r400 % DI100Y
        n4   == r100 \div DI4Y
        r4   == r100 % DI4Y
        n1   == r4 \div 365
        n    == r4 % 365
        year == n400 * 400 + 1 + n100 * 100 + n4 * 4 + n1
    IN  IF n1 = 4 \/ n100 = 4
        THEN [year |-> year - 1, month |-> 12, day |-> 31]
        ELSE LET m0   == (n + 50) \div 32
                 pre0 == _days_before_month(year, m0)
                 month == IF pre0 > n THEN m0 - 1 ELSE m0
                 pre   == _days_before_month(year, month)
             IN  [year |-> year, month |-> month, day |-> n - pre + 1]

datetime(y, mo, d, h, mi, s, us) ==
    [year |-> y, month |-> mo, day |-> d, hour |-> h, minute |-> mi,
     second |-> s, microsecond |-> us]

\* timedelta(days=, seconds=, microseconds=), normalised as Python does
timedelta(days, seconds, microseconds) ==
    LET us == microseconds % US_PER_SECOND
        s1 == seconds + (microseconds \div US_PER_SECOND)
    IN  [days |-> days + (s1 \div SECONDS_PER_DAY),
         seconds |-> s1 % SECONDS_PER_DAY,
         microseconds |-> us]

dt_seconds(dt) == dt.hour * 3600 + dt.minute * 60 + dt.second

\* the comparison key of a datetime: a < b compares the fields in order
dt_lt(a, b) ==
    LET oa == _ymd2ord(a.year, a.month, a.day)
        ob == _ymd2ord(b.year, b.month, b.day)
    IN  \/ oa < ob
        \/ oa = ob /\ dt_seconds(a) < dt_seconds(b)
        \/ oa = ob /\ dt_seconds(a) = dt_seconds(b) /\ a.microsecond < b.microsecond

dt_le(a, b) == a = b \/ dt_lt(a, b)

\* datetime.__add__(timedelta): [tag: "value"] or [tag: "raise"] (OverflowError)
Value(v) == [tag |-> "value", dt |-> v]
None == [tag |-> "None"]
Raise(e) == [tag |-> "raise", exc |-> e]

dt_add(dt, td) ==
    LET delta == timedelta(_ymd2ord(dt.year, dt.month, dt.day) + td.days,
                           dt_seconds(dt) + td.seconds,
                           dt.microsecond + td.microseconds)
    IN  IF td.days > MAXDELTADAYS \/ td.days < -MAXDELTADAYS
        THEN Raise("OverflowError")
        ELSE IF 0 < delta.days /\ delta.days <= MAXORDINAL
        THEN LET ymd == _ord2ymd(delta.days)
             IN  Value(datetime(ymd.year, ymd.month, ymd.day,
                                delta.seconds \div 3600,
                                (delta.seconds % 3600) \div 60,
                                delta.seconds % 60,
                                delta.microseconds))
        ELSE Raise("OverflowError")

\* the clock time of a, counted from midnight, taken for the difference a - b
dt_sub_absolute(a, b) == timedelta(0, dt_seconds(a), a.microsecond)

\* datetime.__sub__(datetime): a timedelta
dt_sub(a, b) ==
    timedelta(_ymd2ord(a.year, a.month, a.day) - _ymd2ord(b.year, b.month, b.day),
              dt_seconds(a) - dt_seconds(b),
              a.microsecond - b.microsecond)

\* timedelta.total_seconds(): the float is kept as whole seconds and microseconds,
\* which it holds exactly for the durations below 2^53 microseconds
total_seconds(td) ==
    [s |-> td.days * SECONDS_PER_DAY + td.seconds, us |-> td.microseconds]

\* timedelta(seconds=x) for such a float
timedelta_seconds(x) == timedelta(0, x.s, x.us)

\* timedelta(seconds=n), timedelta(minutes=n), timedelta(hours=n), timedelta(days=n)
td_unit(unit, n) ==
    CASE unit = "s" -> timedelta(n \div 86400, n % 86400, 0)
      [] unit = "m" -> timedelta(n \div 1440, (n % 1440) * 60, 0)
      [] unit = "h" -> timedelta(n \div 24, (n % 24) * 3600, 0)
      [] unit = "d" -> timedelta(n, 0, 0)


(***************************************************************************)
(* datetime.strptime for the directives the bot uses.  A format is a       *)
(* sequence of directives ("%Y", "%m", ...) and literal characters; a      *)
(* blank in a format matches one or more blanks of the input.              *)
(***************************************************************************)
Directives == {"%Y", "%m", "%d", "%H", "%M", "%S", "%I", "%p"}

AllDigits(piece) == \A i \in 1..Len(piece) : piece[i] \in Digits

\* whether `piece` matches the regular expression of directive f
directive_matches(f, piece) ==
    LET k  == Len(piece)
        c1 == piece[1]
        c2 == piece[2]
    IN  CASE f = "%Y" -> k = 4 /\ AllDigits(piece)
          [] f \in {"%m", "%I"} ->
                \/ k = 2 /\ c1 = "1" /\ c2 \in {"0", "1", "2"}
                \/ k = 2 /\ c1 = "0" /\ c2 \in DigitsNoZero
                \/ k = 1 /\ c1 \in DigitsNoZero
          [] f = "%d" ->
                \/ k = 2 /\ c1 = "3" /\ c2 \in {"0", "1"}
                \/ k = 2 /\ c1 \in {"1", "2"} /\ c2 \in Digits
                \/ k = 2 /\ c1 = "0" /\ c2 \in DigitsNoZero
                \/ k = 1 /\ c1 \in DigitsNoZero
                \/ k = 2 /\ c1 = " " /\ c2 \in DigitsNoZero
          [] f = "%H" ->
                \/ k = 2 /\ c1 = "2" /\ c2 \in {"0", "1", "2", "3"}
                \/ k = 2 /\ c1 \in {"0", "1"} /\ c2 \in Digits
                \/ k = 1 /\ c1 \in Digits
          [] f = "%M" ->
                \/ k = 2 /\ c1 \in {"0", "1", "2", "3", "4", "5"} /\ c2 \in Digits
                \/ k = 1 /\ c1 \in Digits
          [] f = "%S" ->
                \/ k = 2 /\ c1 = "6" /\ c2 \in {"0", "1"}
                \/ k = 2 /\ c1 \in {"0", "1", "2", "3", "4", "5"} /\ c2 \in Digits
                \/ k = 1 /\ c1 \in Digits
          [] f = "%p" -> k = 2 /\ str_lower(piece) \in {<<"a", "m">>, <<"p", "m">>}
          [] OTHER -> FALSE

\* the value a matched directive contributes
directive_value(f, piece) ==
    IF f = "%p" THEN (IF char_lower(piece[1]) = "p" THEN 1 ELSE 0)
    ELSE str_int(SelectSeq(piece, LAMBDA c : c \in Digits))

\* every way the input from position i on matches the format from element j on,
\* consuming the whole input; `acc` collects the directives' values
RECURSIVE strptime_match(_, _, _, _, _)
strptime_match(s, i, fmt, j, acc) ==
    IF j > Len(fmt) THEN (IF i > Len(s) THEN {acc} ELSE {})
    ELSE LET f    == fmt[j]
             left == Len(s) - i + 1
         IN  IF f \in Directives
             THEN UNION { strptime_match(s, i + k, fmt, j + 1,
                              [acc EXCEPT ![f] = directive_value(f, SubSeq(s, i, i + k - 1))])
                          : k \in {k \in 1..4 : k <= left
                                     /\ directive_matches(f, SubSeq(s, i, i + k - 1))} }
             ELSE IF f = " "
             THEN UNION { strptime_match(s, i + k, fmt, j + 1, acc)
                          : k \in {k \in 1..left :
                                     \A q \in i..(i + k - 1) : s[q] \in Whitespace} }
             ELSE IF left >= 1 /\ s[i] = f
             THEN strptime_match(s, i + 1, fmt, j + 1, acc)
             ELSE {}

\* datetime.strptime(s, fmt): Value(datetime) or Raise("ValueError")
strptime(s, fmt) ==
    LET start == [f \in Directives |->
                     CASE f = "%Y" -> 1900 [] f = "%m" -> 1 [] f = "%d" -> 1
                       [] f = "%I" -> -1 [] f = "%p" -> -1 [] OTHER -> 0]
        found == strptime_match(s, 1, fmt, 1, start)
    IN  IF found = {} THEN Raise("ValueError")
        ELSE LET g == CHOOSE a \in found : TRUE
                 hour == IF g["%I"] = -1 THEN g["%H"]
                         ELSE IF g["%p"] = 1
                              THEN (IF g["%I"] # 12 THEN g["%I"] + 12 ELSE 12)
                              ELSE (IF g["%I"] = 12 THEN 0 ELSE g["%I"])
             IN  IF \/ g["%Y"] < MINYEAR
                    \/ g["%d"] > _days_in_month(g["%Y"], g["%m"])
                    \/ g["%S"] > 59
                 THEN Raise("ValueError")
                 ELSE Value(datetime(g["%Y"], g["%m"], g["%d"], hour, g["%M"], g["%S"], 0))

(***************************************************************************)
(* AutoResponderBot.parse_time                                             *)
(***************************************************************************)
TOMORROW == <<"t", "o", "m", "o", "r", "r", "o", "w">>
FMT_I_p == <<"%I", "%p">>
FMT_H_M == <<"%H", ":", "%M">>
formats == << <<"%Y", "-", "%m", "-", "%d", " ", "%H", ":", "%M">>,
              <<"%Y", "-", "%m", "-", "%d", " ", "%H", ":", "%M", ":", "%S">>,
              <<"%d", "/", "%m", "/", "%Y", " ", "%H", ":", "%M">>,
              <<"%d", "-", "%m", "-", "%Y", " ", "%H", ":", "%M">> >>

\* re.match(r'^\d+[smhd]$', time_str)
relative_re(time_str) ==
    /\ Len(time_str) >= 2
    /\ AllDigits(SubSeq(time_str, 1, Len(time_str) - 1))
    /\ time_str[Len(time_str)] \in {"s", "m", "h", "d"}

\* lines 527-543: the relative times
parse_relative(time_str, clock) ==
    LET num  == str_int(SubSeq(time_str, 1, Len(time_str) - 1))
        unit == time_str[Len(time_str)]
    IN  IF unit = "d" /\ num > MAXDELTADAYS THEN Raise("OverflowError")
        ELSE dt_add(clock, td_unit(unit, num))

\* "tomorrow" that keeps the clock's seconds and microseconds
parse_tomorrow_keep_seconds(time_str, clock) ==
    dt_add([clock EXCEPT !.hour = 9, !.minute = 0], timedelta(1, 0, 0))

\* lines 545-560: "tomorrow" and "tomorrow <time>"
parse_tomorrow(time_str, clock) ==
    LET base == dt_add([clock EXCEPT !.hour = 9, !.minute = 0, !.second = 0,
                                     !.microsecond = 0],
                       timedelta(1, 0, 0))
    IN  IF base.tag # "value" THEN base
        ELSE IF Len(time_str) > 8
        THEN LET time_part == str_strip(str_from(time_str, 9))
                 t1 == strptime(time_part, FMT_I_p)
                 t2 == strptime(time_part, FMT_H_M)
             IN  IF t1.tag = "value"
                 THEN Value([base.dt EXCEPT !.hour = t1.dt.hour, !.minute = t1.dt.minute])
                 ELSE IF t2.tag = "value"
                 THEN Value([base.dt EXCEPT !.hour = t2.dt.hour, !.minute = t2.dt.minute])
                 ELSE base
        ELSE base

\* the absolute formats with only the first one tried
parse_formats_first_only(time_str, k) ==
    LET r == strptime(time_str, formats[1])
    IN  IF r.tag = "value" THEN r ELSE None

\* lines 562-579: the absolute formats, tried in order
RECURSIVE parse_formats(_, _)
parse_formats(time_str, k) ==
    IF k > Len(formats) THEN None
    ELSE LET r == strptime(time_str, formats[k])
         IN  IF r.tag = "value" THEN r ELSE parse_formats(time_str, k + 1)

\* parse_time(time_str) with `clock` the value datetime.now() returns in it:
\* Value(datetime), None, or Raise(exception) when the call raises
parse_time(time_str0, clock) ==
    LET time_str == str_strip(str_lower(time_str0))
    IN  IF relative_re(time_str) THEN parse_relative(time_str, clock)
        ELSE IF str_startswith(time_str, TOMORROW) THEN parse_tomorrow(time_str, clock)
        ELSE parse_formats(time_str, 1)

(***************************************************************************)
(* The data classes and the bot's data file                                *)
(***************************************************************************)
\* AutoResponse(trigger, response, exact_match=False, case_sensitive=False, enabled=True)
AutoResponse(trigger, response, exact_match) ==
    [trigger |-> trigger, response |-> response, exact_match |-> exact_match,
     case_sensitive |-> FALSE, enabled |-> TRUE]

\* Reminder(user_id, message, datetime, recurring=None, chat_id)
Reminder(user_id, message, dt, chat_id) ==
    [user_id |-> user_id, message |-> message, datetime |-> dt,
     recurring |-> "None", chat_id |-> chat_id]

DigitChars == <<"0", "1", "2", "3", "4", "5", "6", "7", "8", "9">>

\* str(n) for n >= 0
RECURSIVE int_str(_)
int_str(n) ==
    IF n < 10 THEN <<DigitChars[n + 1]>>
    ELSE int_str(n \div 10) \o <<DigitChars[(n % 10) + 1]>>

\* '%0<w>d' % n
RECURSIVE zero_pad(_, _)
zero_pad(n, w) ==
    IF w <= 0 THEN <<>>
    ELSE zero_pad(n \div 10, w - 1) \o <<DigitChars[(n % 10) + 1]>>

\* isoformat(timespec='seconds'): the microseconds are never written
isoformat_seconds(dt) ==
    zero_pad(dt.year, 4) \o <<"-">> \o zero_pad(dt.month, 2) \o <<"-">>
      \o zero_pad(dt.day, 2) \o <<"T">> \o zero_pad(dt.hour, 2) \o <<":">>
      \o zero_pad(dt.minute, 2) \o <<":">> \o zero_pad(dt.second, 2)

\* datetime.isoformat(): YYYY-MM-DDTHH:MM:SS, and .ffffff when microsecond # 0
isoformat(dt) ==
    zero_pad(dt.year, 4) \o <<"-">> \o zero_pad(dt.month, 2) \o <<"-">>
      \o zero_pad(dt.day, 2) \o <<"T">> \o zero_pad(dt.hour, 2) \o <<":">>
      \o zero_pad(dt.minute, 2) \o <<":">> \o zero_pad(dt.second, 2)
      \o (IF dt.microsecond # 0 THEN <<".">> \o zero_pad(dt.microsecond, 6) ELSE <<>>)

\* datetime.fromisoformat(text) for the shapes isoformat() writes
fromisoformat(t) ==
    LET num(a, b) == str_int(SubSeq(t, a, b))
        shape ==
            /\ Len(t) \in {19, 26}
            /\ \A i \in {1, 2, 3, 4, 6, 7, 9, 10, 12, 13, 15, 16, 18, 19} : t[i] \in Digits
            /\ t[5] = "-" /\ t[8] = "-" /\ t[14] = ":" /\ t[17] = ":"
            /\ Len(t) = 26 => (t[20] = "." /\ \A i \in 21..26 : t[i] \in Digits)
    IN  IF ~shape THEN Raise("ValueError")
        ELSE LET y == num(1, 4)  mo == num(6, 7)  d == num(9, 10)
                 h == num(12, 13)  mi == num(15, 16)  sec == num(18, 19)
                 us == IF Len(t) = 26 THEN num(21, 26) ELSE 0
             IN  IF /\ y >= MINYEAR /\ mo \in 1..12
                    /\ d >= 1 /\ d <= _days_in_month(y, mo)
                    /\ h <= 23 /\ mi <= 59 /\ sec <= 59
                 THEN Value(datetime(y, mo, d, h, mi, sec, us))
                 ELSE Raise("ValueError")

NoFile == [exists |-> FALSE]

\* the dictionary save_data dumps: user ids become text keys, datetimes ISO text
save_data_dict(ar, rem) ==
    [exists |-> TRUE,
     auto_responses |-> [k \in {int_str(u) : u \in DOMAIN ar} |-> ar[str_int(k)]],
     reminders |-> [i \in 1..Len(rem) |-> [rem[i] EXCEPT !.datetime = isoformat(@)]]]

\* save_data() writing the rule lists only
save_data_rules_only(file, ok, ar, rem) ==
    IF ok THEN [save_data_dict(ar, rem) EXCEPT
                  !.reminders = IF file.exists THEN file.reminders ELSE <<>>]
    ELSE file

\* save_data(): the file after the call; a failure is logged and the file is kept
save_data(file, ok, ar, rem) == IF ok THEN save_data_dict(ar, rem) ELSE file

\* load_data(): the rule lists read from the file (lines 64-67)
load_auto_responses(file) ==
    IF ~file.exists THEN <<>>
    ELSE [u \in {str_int(k) : k \in DOMAIN file.auto_responses} |->
             file.auto_responses[int_str(u)]]

\* load_data(): the reminders read from the file, up to the first entry whose
\* datetime text raises (lines 70-75)
RECURSIVE load_reminders_from(_, _)
load_reminders_from(items, k) ==
    IF k > Len(items) THEN <<>>
    ELSE LET parsed == fromisoformat(items[k].datetime)
         IN  IF parsed.tag # "value" THEN <<>>
             ELSE <<[items[k] EXCEPT !.datetime = parsed.dt]>>
                    \o load_reminders_from(items, k + 1)

load_reminders(file) ==
    IF ~file.exists THEN <<>> ELSE load_reminders_from(file.reminders, 1)

(***************************************************************************)
(* The fixed texts of the replies                                          *)
(***************************************************************************)
DENIED == "You don't have permission to use this command."
ADD_NO_ARGS == "Please provide trigger and response separated by '|'"
ADD_NO_SEPARATOR == "Please separate trigger and response with '|'"
ADD_EMPTY_PART == "Both trigger and response must be provided"
ADDED == "Auto-response added!"
ADDED_EXACT == "Exact-match auto-response added!"
LIST_EMPTY == "You don't have any auto-responses set up."
LIST_HEADER == "*Your Auto-Responses:*"
DELETE_NO_ARGS == "Please provide the response number to delete"
TOGGLE_NO_ARGS == "Please provide the response number to toggle"
NOT_A_NUMBER == "Please provide a valid number"
BAD_RESPONSE_NUMBER == "Invalid response number"
DELETED == "Deleted auto-response:"
TOGGLED_ON == "Auto-response enabled:"
TOGGLED_OFF == "Auto-response disabled:"
REMIND_USAGE == "Usage: /remind <time> <message>"
INVALID_TIME == "Invalid time format. Please check the examples in /admin"
NOT_FUTURE == "Reminder time must be in the future"
NO_JOB_QUEUE == "Reminder scheduling is not available. Please restart the bot."
SCHEDULE_ERROR == "Error scheduling reminder:"
REMINDER_SET == "Reminder set!"
REMINDERS_EMPTY == "You don't have any reminders set up."
REMINDERS_HEADER == "*Your Reminders:*"
DELETE_REMINDER_NO_ARGS == "Please provide the reminder number to delete"
BAD_REMINDER_NUMBER == "Invalid reminder number"
DELETED_REMINDER == "Deleted reminder:"
REMINDER_TEXT == "*Reminder:*"
AUTO_REPLY == "{response.response}"

\* one message handed to the gateway: the chat, the fixed text, the interpolated part
Message(chat, text, arg) == [chat_id |-> chat, text |-> text, arg |-> arg]

\* the record of a handler's run: who called it with what, and what it sent
Out(handler, user, chat, args, replies) ==
    [handler |-> handler, user |-> user, chat |-> chat, args |-> args,
     replies |-> replies, raised |-> "None"]

(***************************************************************************)
(* Helpers of the command handlers                                         *)
(***************************************************************************)
\* _is_admin letting every caller through
_is_admin_anyone(user_id) == user_id = user_id

\* _is_admin(user_id): user_id in admin_ids
_is_admin(user_id) == user_id \in admin_ids

\* self.auto_responses.get(user_id, []) falling back on the lists of all users
responses_of_anyone(ar, user_id) ==
    IF user_id \in DOMAIN ar THEN ar[user_id]
    ELSE IF DOMAIN ar = {} THEN <<>>
    ELSE ar[CHOOSE v \in DOMAIN ar : TRUE]

\* self.auto_responses.get(user_id, [])
responses_of(ar, user_id) == IF user_id \in DOMAIN ar THEN ar[user_id] ELSE <<>>

\* the index of the last '|' of a text (0 when there is none)
last_bar(text) ==
    IF \E i \in 1..Len(text) : text[i] = "|"
    THEN CHOOSE i \in 1..Len(text) :
            text[i] = "|" /\ \A k \in (i + 1)..Len(text) : text[k] # "|"
    ELSE 0

\* the index of the first '|' of a text (0 when there is none)
first_bar(text) ==
    IF \E i \in 1..Len(text) : text[i] = "|"
    THEN CHOOSE i \in 1..Len(text) :
            text[i] = "|" /\ \A k \in 1..(i - 1) : text[k] # "|"
    ELSE 0

\* int(token) with a text that is no number read as 1
py_int_lenient(token) ==
    LET signed == Len(token) >= 1 /\ token[1] \in {"+", "-"}
        body   == IF signed THEN Tail(token) ELSE token
    IN  IF Len(body) = 0 \/ ~AllDigits(body) THEN [tag |-> "value", n |-> 1]
        ELSE [tag |-> "value",
              n |-> IF signed /\ token[1] = "-" THEN -str_int(body) ELSE str_int(body)]

\* int(token): Value(n) or Raise("ValueError"); an optional sign, then digits
py_int(token) ==
    LET signed == Len(token) >= 1 /\ token[1] \in {"+", "-"}
        body   == IF signed THEN Tail(token) ELSE token
    IN  IF Len(body) = 0 \/ ~AllDigits(body) THEN Raise("ValueError")
        ELSE [tag |-> "value",
              n |-> IF signed /\ token[1] = "-" THEN -str_int(body) ELSE str_int(body)]

\* list.pop() whatever the index: the list without its last element
list_without_last(list, k) == SubSeq(list, 1, Len(list) - 1)

\* a rule switched off whatever its flag was
toggled_off(response) == [response EXCEPT !.enabled = FALSE]

\* line 509: response.enabled = not response.enabled
toggled(response) == [response EXCEPT !.enabled = ~@]

\* list.pop(k - 1) / del: the list without its k-th element (1-based)
list_without(list, k) == SubSeq(list, 1, k - 1) \o SubSeq(list, k + 1, Len(list))

\* list.remove(x) that takes nothing out
list_remove_nothing(list, x) == list

\* list.remove(x): the list without its first element equal to x
list_remove(list, x) ==
    LET k == CHOOSE i \in 1..Len(list) :
                 list[i] = x /\ \A q \in 1..(i - 1) : list[q] # x
    IN  list_without(list, k)

\* x in list
list_contains(list, x) == \E i \in 1..Len(list) : list[i] = x

\* [r for r in self.reminders if r.user_id == user_id]
user_reminders_of(rem, user_id) == SelectSeq(rem, LAMBDA r : r.user_id = user_id)

\* what a handler leaves alone
RulesUnchanged == UNCHANGED <<auto_responses>>
RemindersUnchanged == UNCHANGED <<reminders, job_queue>>
ConfigUnchanged == UNCHANGED <<admin_ids, store_ok, started>>
ClockUnchanged == UNCHANGED <<now, ticks>>

\* a handler that only replies
OnlyReply(handler, user, chat, args, text) ==
    /\ out' = Out(handler, user, chat, args, <<Message(chat, text, <<>>)>>)
    /\ UNCHANGED <<auto_responses, reminders, data_file, job_queue>>

(***************************************************************************)
(* The rule commands                                                       *)
(***************************************************************************)
\* lines 366-392 and 408-430: the shared tail of the two add commands
add_rule(handler, user, chat, args, exact, text_added) ==
    LET text     == str_join(args)
        bar      == first_bar(text)
        trigger  == str_strip(SubSeq(text, 1, bar - 1))
        response == str_strip(SubSeq(text, bar + 1, Len(text)))
        old      == responses_of(auto_responses, user)
        rule     == AutoResponse(trigger, response, exact)
    IN  IF ~_is_admin(user) THEN OnlyReply(handler, user, chat, args, DENIED)
        ELSE IF Len(args) = 0 THEN OnlyReply(handler, user, chat, args, ADD_NO_ARGS)
        ELSE IF bar = 0 THEN OnlyReply(handler, user, chat, args, ADD_NO_SEPARATOR)
        ELSE IF ~exact /\ (trigger = <<>> \/ response = <<>>)
        THEN OnlyReply(handler, user, chat, args, ADD_EMPTY_PART)
        ELSE /\ auto_responses' = (user :> Append(old, rule)) @@ auto_responses
             /\ data_file' = save_data(data_file, store_ok, auto_responses', reminders)
             /\ out' = Out(handler, user, chat, args,
                           <<Message(chat, text_added, <<trigger, response>>)>>)
             /\ UNCHANGED <<reminders, job_queue>>

add_response_command(user, chat, args) ==
    /\ started
    /\ add_rule("addresponse", user, chat, args, FALSE, ADDED)
    /\ ConfigUnchanged /\ ClockUnchanged

add_exact_response_command(user, chat, args) ==
    /\ started
    /\ add_rule("addresponse_exact", user, chat, args, TRUE, ADDED_EXACT)
    /\ ConfigUnchanged /\ ClockUnchanged

list_responses_command(user, chat, args) ==
    LET responses == responses_of(auto_responses, user)
    IN  /\ started
        /\ IF ~_is_admin(user) THEN OnlyReply("listresponses", user, chat, args, DENIED)
           ELSE IF Len(responses) = 0
           THEN OnlyReply("listresponses", user, chat, args, LIST_EMPTY)
           ELSE /\ out' = Out("listresponses", user, chat, args,
                              <<Message(chat, LIST_HEADER,
                                  [i \in 1..Len(responses) |->
                                     [number |-> i, enabled |-> responses[i].enabled,
                                      trigger |-> responses[i].trigger,
                                      response |-> responses[i].response,
                                      exact_match |-> responses[i].exact_match]])>>)
                /\ UNCHANGED <<auto_responses, reminders, data_file, job_queue>>
        /\ ConfigUnchanged /\ ClockUnchanged

delete_response_command(user, chat, args) ==
    LET responses    == responses_of(auto_responses, user)
        response_num == py_int(args[1])
    IN  /\ started
        /\ IF ~_is_admin(user) THEN OnlyReply("deleteresponse", user, chat, args, DENIED)
           ELSE IF Len(args) = 0
           THEN OnlyReply("deleteresponse", user, chat, args, DELETE_NO_ARGS)
           ELSE IF response_num.tag # "value"
           THEN OnlyReply("deleteresponse", user, chat, args, NOT_A_NUMBER)
           ELSE IF response_num.n < 1 \/ response_num.n > Len(responses)
           THEN OnlyReply("deleteresponse", user, chat, args, BAD_RESPONSE_NUMBER)
           ELSE /\ auto_responses' = [auto_responses EXCEPT
                                        ![user] = list_without(responses, response_num.n)]
                /\ data_file' = save_data(data_file, store_ok, auto_responses', reminders)
                /\ out' = Out("deleteresponse", user, chat, args,
                              <<Message(chat, DELETED, responses[response_num.n].trigger)>>)
                /\ UNCHANGED <<reminders, job_queue>>
        /\ ConfigUnchanged /\ ClockUnchanged

toggle_response_command(user, chat, args) ==
    LET responses    == responses_of(auto_responses, user)
        response_num == py_int(args[1])
    IN  /\ started
        /\ IF ~_is_admin(user) THEN OnlyReply("toggleresponse", user, chat, args, DENIED)
           ELSE IF Len(args) = 0
           THEN OnlyReply("toggleresponse", user, chat, args, TOGGLE_NO_ARGS)
           ELSE IF response_num.tag # "value"
           THEN OnlyReply("toggleresponse", user, chat, args, NOT_A_NUMBER)
           ELSE IF response_num.n < 1 \/ response_num.n > Len(responses)
           THEN OnlyReply("toggleresponse", user, chat, args, BAD_RESPONSE_NUMBER)
           ELSE /\ auto_responses' = [auto_responses EXCEPT
                                        ![user][response_num.n] = toggled(@)]
                /\ data_file' = save_data(data_file, store_ok, auto_responses', reminders)
                /\ out' = Out("toggleresponse", user, chat, args,
                              <<Message(chat,
                                  IF responses[response_num.n].enabled
                                  THEN TOGGLED_OFF ELSE TOGGLED_ON,
                                  responses[response_num.n].trigger)>>)
                /\ UNCHANGED <<reminders, job_queue>>
        /\ ConfigUnchanged /\ ClockUnchanged

(***************************************************************************)
(* handle_message: the auto-responder                                      *)
(***************************************************************************)
\* rule_matches with the message lowercased whatever case_sensitive says
rule_matches_always_lower(response, message_text) ==
    LET trigger == IF ~response.case_sensitive THEN str_lower(response.trigger)
                   ELSE response.trigger
    IN  IF response.exact_match THEN str_lower(message_text) = trigger
        ELSE str_contains(str_lower(message_text), trigger)

\* lines 756-768: whether one rule matches the message text
rule_matches(response, message_text) ==
    LET trigger == IF ~response.case_sensitive THEN str_lower(response.trigger)
                   ELSE response.trigger
        message_text_check == IF ~response.case_sensitive THEN str_lower(message_text)
                              ELSE message_text
    IN  IF response.exact_match THEN message_text_check = trigger
        ELSE str_contains(message_text_check, trigger)

\* scan_responses without the `continue` of a disabled rule
RECURSIVE scan_responses_no_skip(_, _, _, _)
scan_responses_no_skip(responses, k, message_text, chat) ==
    IF k > Len(responses) THEN <<>>
    ELSE IF rule_matches(responses[k], message_text)
    THEN <<Message(chat, AUTO_REPLY, responses[k].response)>>
    ELSE scan_responses_no_skip(responses, k + 1, message_text, chat)

\* lines 752-772: the replies the loop over the rules sends, from rule k on
RECURSIVE scan_responses(_, _, _, _)
scan_responses(responses, k, message_text, chat) ==
    IF k > Len(responses) THEN <<>>
    ELSE IF ~responses[k].enabled THEN scan_responses(responses, k + 1, message_text, chat)
    ELSE IF rule_matches(responses[k], message_text)
    THEN <<Message(chat, AUTO_REPLY, responses[k].response)>>
    ELSE scan_responses(responses, k + 1, message_text, chat)

\* lines 744-772: the replies handle_message sends to a text of `user`, given
\* the rule lists `ar`
handle_message_replies(ar, user, chat, message_text) ==
    IF Len(message_text) = 0 THEN <<>>
    ELSE scan_responses(responses_of(ar, user), 1, message_text, chat)

handle_message(user, chat, message_text) ==
    /\ started
    /\ out' = Out("message", user, chat, <<message_text>>,
                  handle_message_replies(auto_responses, user, chat, message_text))
    /\ UNCHANGED <<auto_responses, reminders, data_file, job_queue>>
    /\ ConfigUnchanged /\ ClockUnchanged

(***************************************************************************)
(* The reminder commands                                                   *)
(***************************************************************************)
\* the clock after a duration has passed
later(clock, gap) == dt_add(clock, gap).dt

\* the future check with `<` for `<=`
not_in_future_strict(remind_time, clock) == dt_lt(remind_time, clock)

\* line 609: remind_time <= datetime.now()
not_in_future(remind_time, clock) == dt_le(remind_time, clock)

\* lines 581-660.  gap1 passes between the clock read of parse_time and the one
\* of the future check, gap2 between that one and the one of the delay;
\* sched_ok is whether job_queue.run_once returns rather than raises.
remind_command(user, chat, args, gap1, gap2, sched_ok) ==
    /\ started
    /\ ConfigUnchanged
    /\ IF ~_is_admin(user)
       THEN OnlyReply("remind", user, chat, args, DENIED) /\ ClockUnchanged
       ELSE IF Len(args) < 2
       THEN OnlyReply("remind", user, chat, args, REMIND_USAGE) /\ ClockUnchanged
       ELSE \E remind_time \in {parse_time(args[1], now)} :
            \E now_check \in {later(now, gap1)} :
            \E now_delay \in {later(now_check, gap2)} :
            LET message == str_join(Tail(args))
                seen    == [remind_time |-> remind_time, now_check |-> now_check,
                            now_delay |-> now_delay]
                Replied(text, arg) ==
                    out' = Out("remind", user, chat, args, <<Message(chat, text, arg)>>)
                             @@ seen
            IN  IF remind_time.tag = "raise"
                THEN /\ out' = [Out("remind", user, chat, args, <<>>)
                                  EXCEPT !.raised = remind_time.exc]
                     /\ UNCHANGED <<auto_responses, reminders, data_file, job_queue>>
                     /\ ClockUnchanged
                ELSE IF remind_time.tag = "None"
                THEN OnlyReply("remind", user, chat, args, INVALID_TIME) /\ ClockUnchanged
                ELSE IF not_in_future(remind_time.dt, now_check)
                THEN /\ Replied(NOT_FUTURE, <<>>)
                     /\ now' = now_check
                     /\ ticks' = ticks + (IF now_check = now THEN 0 ELSE 1)
                     /\ UNCHANGED <<auto_responses, reminders, data_file, job_queue>>
                ELSE \E delay_seconds \in {total_seconds(dt_sub(remind_time.dt, now_delay))} :
                     \E reminder \in {Reminder(user, message, remind_time.dt, chat)} :
                     LET appended == Append(reminders, reminder)
                         job == [reminder |-> reminder, original_time |-> remind_time.dt,
                                 when |-> timedelta_seconds(delay_seconds),
                                 name |-> <<"reminder", user, Len(appended)>>]
                     IN  /\ now' = now_delay
                         /\ ticks' = ticks + (IF now_check = now THEN 0 ELSE 1)
                                           + (IF now_delay = now_check THEN 0 ELSE 1)
                         /\ UNCHANGED auto_responses
                         /\ IF ~job_queue.available
                            THEN /\ reminders' = appended
                                 /\ data_file' = save_data(data_file, store_ok,
                                                           auto_responses, appended)
                                 /\ Replied(NO_JOB_QUEUE, <<>>)
                                 /\ UNCHANGED job_queue
                            ELSE IF ~sched_ok
                            THEN /\ reminders' = list_remove(appended, reminder)
                                 /\ data_file' = save_data(data_file, store_ok,
                                                           auto_responses, reminders')
                                 /\ out' = Out("remind", user, chat, args,
                                               <<Message(chat, SCHEDULE_ERROR, <<>>)>>)
                                            @@ seen
                                            @@ [awaited |->
                                                  [reminders |-> appended,
                                                   data_file |->
                                                     save_data(data_file, store_ok,
                                                               auto_responses, appended)]]
                                 /\ UNCHANGED job_queue
                            ELSE /\ reminders' = appended
                                 /\ data_file' = save_data(data_file, store_ok,
                                                           auto_responses, appended)
                                 /\ job_queue' = [job_queue EXCEPT !.jobs = Append(@, job)]
                                 /\ Replied(REMINDER_SET,
                                            [time |-> remind_time.dt, message |-> message,
                                             delay |-> delay_seconds])

reminders_command(user, chat, args) ==
    LET user_reminders == user_reminders_of(reminders, user)
    IN  /\ started
        /\ IF ~_is_admin(user) THEN OnlyReply("reminders", user, chat, args, DENIED)
           ELSE IF Len(user_reminders) = 0
           THEN OnlyReply("reminders", user, chat, args, REMINDERS_EMPTY)
           ELSE /\ out' = Out("reminders", user, chat, args,
                              <<Message(chat, REMINDERS_HEADER,
                                  [i \in 1..Len(user_reminders) |->
                                     [number |-> i,
                                      datetime |-> user_reminders[i].datetime,
                                      message |-> user_reminders[i].message]])>>)
                /\ UNCHANGED <<auto_responses, reminders, data_file, job_queue>>
        /\ ConfigUnchanged /\ ClockUnchanged

delete_reminder_command(user, chat, args) ==
    LET user_reminders == user_reminders_of(reminders, user)
        reminder_num   == py_int(args[1])
    IN  /\ started
        /\ IF ~_is_admin(user) THEN OnlyReply("deletereminder", user, chat, args, DENIED)
           ELSE IF Len(args) = 0
           THEN OnlyReply("deletereminder", user, chat, args, DELETE_REMINDER_NO_ARGS)
           ELSE IF reminder_num.tag # "value"
           THEN OnlyReply("deletereminder", user, chat, args, NOT_A_NUMBER)
           ELSE IF reminder_num.n < 1 \/ reminder_num.n > Len(user_reminders)
           THEN OnlyReply("deletereminder", user, chat, args, BAD_REMINDER_NUMBER)
           ELSE /\ reminders' = list_remove(reminders, user_reminders[reminder_num.n])
                /\ data_file' = save_data(data_file, store_ok, auto_responses, reminders')
                /\ out' = Out("deletereminder", user, chat, args,
                              <<Message(chat, DELETED_REMINDER,
                                        user_reminders[reminder_num.n].message)>>)
                             @@ [reminder_to_delete |-> user_reminders[reminder_num.n]]
                /\ UNCHANGED <<auto_responses, job_queue>>
        /\ ConfigUnchanged /\ ClockUnchanged

(***************************************************************************)
(* The scheduled job and the start of the bot                              *)
(***************************************************************************)
\* when the scheduler runs a job: the delay after the moment it was handed over
job_due(job) == job.original_time

\* lines 714-740: the scheduler runs job k; send_ok is whether the gateway's
\* send_message returns rather than raises
send_reminder(k, send_ok) ==
    LET job      == job_queue.jobs[k]
        reminder == job.reminder
        sent     == Message(reminder.chat_id, REMINDER_TEXT, reminder.message)
        ran(replies) ==
            out' = Out("send_reminder", reminder.user_id, reminder.chat_id, <<>>, replies)
                     @@ [reminder |-> reminder, send_ok |-> send_ok]
    IN  /\ started
        /\ k \in 1..Len(job_queue.jobs)
        /\ dt_le(job_due(job), now)
        /\ job_queue' = [job_queue EXCEPT !.jobs = list_without(@, k)]
        /\ IF ~send_ok
           THEN ran(<<>>) /\ UNCHANGED <<reminders, data_file>>
           ELSE IF list_contains(reminders, reminder)
           THEN /\ reminders' = list_remove(reminders, reminder)
                /\ data_file' = save_data(data_file, store_ok, auto_responses, reminders')
                /\ ran(<<sent>>)
           ELSE ran(<<sent>>) /\ UNCHANGED <<reminders, data_file>>
        /\ UNCHANGED auto_responses
        /\ ConfigUnchanged /\ ClockUnchanged

\* the test of line 820 with `>=` for `>`
still_ahead_or_now(reminder_dt, clock) == dt_le(clock, reminder_dt)

\* line 820: reminder.datetime > datetime.now()
still_ahead(reminder_dt, clock) == dt_lt(clock, reminder_dt)

\* lines 811-836: the jobs setup_jobs schedules for reminders k.. of the list;
\* `failing` are the positions whose run_once raises (logged, lines 833-834)
RECURSIVE setup_jobs_from(_, _, _, _, _)
setup_jobs_from(rem, k, now_check, now_delay, failing) ==
    IF k > Len(rem) THEN <<>>
    ELSE (IF still_ahead(rem[k].datetime, now_check) /\ k \notin failing
          THEN <<[reminder |-> rem[k], original_time |-> rem[k].datetime,
                  when |-> timedelta_seconds(total_seconds(dt_sub(rem[k].datetime,
                                                                  now_delay))),
                  name |-> <<"startup_reminder", k - 1, 0>>]>>
          ELSE <<>>)
         \o setup_jobs_from(rem, k + 1, now_check, now_delay, failing)

\* lines 838-876: run() up to run_polling; setup_jobs only with a job queue.
\* `gap` passes between the clock read of line 820 and the one of line 822;
\* out.raised_at are the positions at which run_once was called and raised.
run(failing, gap) ==
    /\ ~started
    /\ started' = TRUE
    /\ \E now_delay \in {later(now, gap)} :
          /\ job_queue' = IF job_queue.available
                          THEN [job_queue EXCEPT !.jobs =
                                  setup_jobs_from(reminders, 1, now, now_delay, failing)]
                          ELSE job_queue
          /\ now' = now_delay
          /\ ticks' = ticks + (IF now_delay = now THEN 0 ELSE 1)
    /\ out' = Out("run", 0, 0, <<>>, <<>>)
                @@ [raised_at |-> IF job_queue.available
                                  THEN {k \in failing \cap (1..Len(reminders)) :
                                          still_ahead(reminders[k].datetime, now)}
                                  ELSE {}]
    /\ UNCHANGED <<admin_ids, auto_responses, reminders, data_file, store_ok>>

\* the scheduler of run_once (lines 635-640, 825-830) keeps job k until the
\* delay it was given has passed: the clock reaches the moment the job is due
job_wait(k) ==
    /\ started
    /\ k \in 1..Len(job_queue.jobs)
    /\ dt_lt(now, job_due(job_queue.jobs[k]))
    /\ now' = job_due(job_queue.jobs[k])
    /\ ticks' = ticks + 1
    /\ out' = Out("tick", 0, 0, <<>>, <<>>)
    /\ UNCHANGED <<admin_ids, auto_responses, reminders, data_file, store_ok,
                   job_queue, started>>

(***************************************************************************)
(* The environment: the clock and the store                                *)
(***************************************************************************)
MaxTicks == 1

Tick(step) ==
    /\ ticks < MaxTicks
    /\ now' = later(now, step)
    /\ ticks' = ticks + 1
    /\ out' = Out("tick", 0, 0, <<>>, <<>>)
    /\ UNCHANGED <<admin_ids, auto_responses, reminders, data_file, store_ok,
                   job_queue, started>>

\* the process ends and a new one is constructed on the data file (lines 49-54):
\* the lists are loaded again, the scheduler's jobs are gone
restart ==
    /\ started
    /\ started' = FALSE
    /\ auto_responses' = load_auto_responses(data_file)
    /\ reminders' = load_reminders(data_file)
    /\ job_queue' = [job_queue EXCEPT !.jobs = <<>>]
    /\ out' = Out("init", 0, 0, <<>>, <<>>)
    /\ UNCHANGED <<admin_ids, data_file, store_ok, now, ticks>>

\* the data file becomes unwritable, or writable again
StoreFlip ==
    /\ store_ok' = ~store_ok
    /\ out' = Out("store", 0, 0, <<>>, <<>>)
    /\ UNCHANGED <<admin_ids, auto_responses, reminders, data_file,
                   job_queue, now, started, ticks>>

(***************************************************************************)
(* The bot as a whole: every command, the auto-responder, the jobs         *)
(***************************************************************************)
MaxRules == 1
MaxReminders == 2
MaxJobs == 2

Users == {7, 8}
NOW0 == datetime(2026, 11, 3, 10, 6, 0, 0)

T_hi == <<"h", "i">>
T_yo == <<"y", "o">>
T_hi_bar_yo == <<"h", "i", "|", "y", "o">>
T_bar == <<"|">>
T_10s == <<"1", "0", "s">>
T_1s == <<"1", "s">>
T_0s == <<"0", "s">>
T_soon == <<"s", "o", "o", "n">>

NoGap == timedelta(0, 0, 0)
OneSecond == timedelta(0, 1, 0)
OneDay == timedelta(1, 0, 0)

\* a data file left by an earlier run: a disabled rule of user 8, a reminder of
\* user 8 that is already due and one of user 7 that is not
File1 ==
    [exists |-> TRUE,
     auto_responses |->
        (<<"8">> :> <<[trigger |-> T_yo, response |-> T_hi, exact_match |-> FALSE,
                       case_sensitive |-> TRUE, enabled |-> FALSE]>>),
     reminders |->
        <<[user_id |-> 8, message |-> T_yo,
           datetime |-> isoformat(datetime(2026, 11, 2, 9, 0, 0, 0)),
           recurring |-> "None", chat_id |-> 8],
          [user_id |-> 7, message |-> T_hi,
           datetime |-> isoformat(datetime(2026, 11, 3, 10, 6, 10, 0)),
           recurring |-> "None", chat_id |-> 7]>>]

\* __init__ (lines 49-54) on a data file, under a configuration of the admins
\* and of the job queue, at a time of the clock
InitWith(admins, files, queues, clocks) ==
    /\ admin_ids \in admins
    /\ data_file \in files
    /\ auto_responses = load_auto_responses(data_file)
    /\ reminders = load_reminders(data_file)
    /\ store_ok = TRUE
    /\ job_queue \in {[available |-> a, jobs |-> <<>>] : a \in queues}
    /\ now \in clocks
    /\ started = FALSE
    /\ ticks = 0
    /\ out = Out("init", 0, 0, <<>>, <<>>)

\* the model's caps on the lists the code lets grow without bound
Capped ==
    /\ \A u \in DOMAIN auto_responses' : Len(auto_responses'[u]) <= MaxRules
    /\ Len(reminders') <= MaxReminders
    /\ Len(job_queue'.jobs) <= MaxJobs
    /\ ticks' <= MaxTicks

RuleArgs == { <<>>, <<T_hi>>, <<T_hi_bar_yo>> }
NumberArgs == { <<>>, <<T_soon>>, <<<<"0">>>>, <<<<"1">>>>, <<<<"3">>>> }
RemindArgs == { <<T_10s>>, <<T_soon, T_hi>>, <<T_0s, T_hi>>, <<T_10s, T_hi>> }
Texts == { T_hi, T_yo }

Init == InitWith({{}, {7}}, {NoFile, File1}, BOOLEAN, {NOW0})

Next ==
    \/ \E failing \in SUBSET (1..MaxReminders) : run(failing, NoGap)
    \/ \E u \in Users, a \in RuleArgs : add_response_command(u, u, a) /\ Capped
    \/ \E u \in Users, a \in RuleArgs : add_exact_response_command(u, u, a) /\ Capped
    \/ \E u \in Users : list_responses_command(u, u, <<>>)
    \/ \E u \in Users, a \in NumberArgs : delete_response_command(u, u, a)
    \/ \E u \in Users, a \in NumberArgs : toggle_response_command(u, u, a)
    \/ \E u \in Users, a \in RemindArgs, ok \in BOOLEAN :
          remind_command(u, u, a, NoGap, NoGap, ok) /\ Capped
    \/ \E u \in Users : reminders_command(u, u, <<>>)
    \/ \E u \in Users, a \in NumberArgs : delete_reminder_command(u, u, a)
    \/ \E k \in 1..MaxJobs, ok \in BOOLEAN : send_reminder(k, ok)
    \/ \E u \in Users, t \in Texts : handle_message(u, u, t)
    \/ Tick(OneDay)

Spec == Init /\ [][Next]_vars

(***************************************************************************)
(* The auto-responder on rule lists read from a data file                  *)
(***************************************************************************)
MaxMatchRules == 2

T_Hi == <<"H", "i">>
T_no == <<"n", "o">>
MatchRules ==
    { [trigger |-> t, response |-> r, exact_match |-> e, case_sensitive |-> c,
       enabled |-> n] :
        t \in {T_hi, T_Hi}, r \in {T_yo, T_no}, e \in BOOLEAN, c \in BOOLEAN,
        n \in BOOLEAN }
MatchLists == UNION { [1..n -> MatchRules] : n \in 0..MaxMatchRules }
MatchFiles ==
    { [exists |-> TRUE,
       auto_responses |-> (<<"7">> :> l) @@
           (<<"8">> :> <<[trigger |-> <<"i">>, response |-> <<"8">>,
                          exact_match |-> FALSE, case_sensitive |-> FALSE,
                          enabled |-> TRUE]>>),
       reminders |-> <<>>] : l \in MatchLists }
MatchTexts == { T_hi, T_Hi, <<"o", "h", " ", "H", "i", "!">>, <<"h", "i", "p">>, <<"h">> }

InitMatch == InitWith({{}}, MatchFiles, {TRUE}, {NOW0})
NextMatch ==
    \/ run({}, NoGap)
    \/ \E t \in MatchTexts : handle_message(7, 7, t)
SpecMatch == InitMatch /\ [][NextMatch]_vars

\* the positions of the caller's rules that are enabled and match the text
EnabledHits(rs, text) ==
    {k \in 1..Len(rs) : rs[k].enabled /\ rule_matches(rs[k], text)}

\* C1: handle_message sends at most one reply, the response of the first rule in
\* list order that is enabled and matches; nothing when no enabled rule matches
\* (so a disabled rule that matches never replies).
C1_FirstEnabledMatch ==
    out.handler = "message" =>
        LET rs   == responses_of(auto_responses, out.user)
            hits == EnabledHits(rs, out.args[1])
        IN  /\ Len(out.replies) <= 1
            /\ hits = {} => out.replies = <<>>
            /\ hits # {} =>
                 LET first == CHOOSE k \in hits : \A q \in hits : k <= q
                 IN  out.replies = <<Message(out.chat, AUTO_REPLY, rs[first].response)>>

\* a disabled rule that matches is passed over and the second rule replies
C1_Witness ==
    /\ out.handler = "message"
    /\ Len(responses_of(auto_responses, out.user)) = 2
    /\ ~auto_responses[out.user][1].enabled
    /\ rule_matches(auto_responses[out.user][1], out.args[1])
    /\ auto_responses[out.user][1].response # auto_responses[out.user][2].response
    /\ out.replies = <<Message(out.chat, AUTO_REPLY, auto_responses[out.user][2].response)>>

\* the claim's matching rule, spelled out on the characters
SameChar(a, b, case_sensitive) ==
    IF case_sensitive THEN a = b ELSE char_lower(a) = char_lower(b)
ClaimedMatch(rule, text) ==
    IF rule.exact_match
    THEN /\ Len(text) = Len(rule.trigger)
         /\ \A i \in 1..Len(text) : SameChar(text[i], rule.trigger[i], rule.case_sensitive)
    ELSE \E start \in 0..(Len(text) - Len(rule.trigger)) :
            \A i \in 1..Len(rule.trigger) :
                SameChar(text[start + i], rule.trigger[i], rule.case_sensitive)

\* C2: a rule matches exactly when the text equals the trigger (exactMatch) or
\* contains it, compared after lowercasing unless caseSensitive is set; seen on
\* the lists with one enabled rule, which replies exactly when it matches.
C2_MatchRule ==
    out.handler = "message" =>
        LET rs == responses_of(auto_responses, out.user)
            on == {k \in 1..Len(rs) : rs[k].enabled}
        IN  Cardinality(on) = 1 =>
                LET k == CHOOSE k \in on : TRUE
                IN  (out.replies # <<>>) <=> ClaimedMatch(rs[k], out.args[1])

\* a case-sensitive exact rule does not answer a text that differs only in case
C2_Witness ==
    /\ out.handler = "message"
    /\ Len(responses_of(auto_responses, out.user)) = 1
    /\ LET r == auto_responses[out.user][1]
       IN  /\ r.enabled /\ r.case_sensitive /\ r.exact_match
           /\ r.trigger # out.args[1]
           /\ str_lower(r.trigger) = str_lower(out.args[1])
    /\ out.replies = <<>>

(***************************************************************************)
(* Properties of the bot as a whole (Spec)                                 *)
(***************************************************************************)
Restricted == {"addresponse", "addresponse_exact", "listresponses", "deleteresponse",
               "toggleresponse", "remind", "reminders", "deletereminder"}

\* the fixed texts of the replies of a handler's run
ReplyTexts(o) == [i \in 1..Len(o.replies) |-> o.replies[i].text]

\* C3: a restricted command called by a user who is not in the admin list gets
\* the permission-denied reply, and the rule lists, the reminders, the data file
\* and the scheduled jobs stay as they were.
C3_DeniedNoChange ==
    [][ (out'.handler \in Restricted /\ out'.user \notin admin_ids) =>
            /\ ReplyTexts(out') = <<DENIED>>
            /\ out'.replies[1].chat_id = out'.chat
            /\ UNCHANGED <<auto_responses, reminders, data_file, job_queue>> ]_vars

\* a caller outside a non-empty admin list is denied /remind while a reminder
\* and its job exist
C3_Witness ==
    /\ out.handler = "remind" /\ Len(out.args) >= 2
    /\ admin_ids # {} /\ out.user \notin admin_ids
    /\ ReplyTexts(out) = <<DENIED>>
    /\ reminders # <<>> /\ job_queue.jobs # <<>>

\* whether a token is a number (digits after an optional sign), and which
IsNumber(token) ==
    LET body == IF Len(token) >= 1 /\ token[1] \in {"+", "-"} THEN Tail(token) ELSE token
    IN  Len(body) >= 1 /\ \A i \in 1..Len(body) : body[i] \in Digits
NumberOf(token) ==
    IF token[1] = "-" THEN -str_int(Tail(token))
    ELSE IF token[1] = "+" THEN str_int(Tail(token)) ELSE str_int(token)
BadIndex(args, length) ==
    \/ Len(args) = 0
    \/ ~IsNumber(args[1])
    \/ NumberOf(args[1]) < 1
    \/ NumberOf(args[1]) > length

\* C4: the malformed requests of the claim, for a call of `handler` by `user`
\* with `args` in the current state, and the corrective reply each must get
Malformed(handler, user, args) ==
    CASE handler \in {"addresponse", "addresponse_exact"} ->
            Len(args) = 0 \/ \A i \in 1..Len(str_join(args)) : str_join(args)[i] # "|"
      [] handler \in {"deleteresponse", "toggleresponse"} ->
            BadIndex(args, Len(responses_of(auto_responses, user)))
      [] handler = "deletereminder" ->
            BadIndex(args, Len(user_reminders_of(reminders, user)))
      [] handler = "remind" ->
            Len(args) < 2 \/ parse_time(args[1], now).tag = "None"
      [] OTHER -> FALSE

Corrective(handler, args) ==
    CASE handler \in {"addresponse", "addresponse_exact"} ->
            IF Len(args) = 0 THEN ADD_NO_ARGS ELSE ADD_NO_SEPARATOR
      [] handler \in {"deleteresponse", "toggleresponse", "deletereminder"} ->
            IF Len(args) = 0
            THEN (CASE handler = "deleteresponse" -> DELETE_NO_ARGS
                    [] handler = "toggleresponse" -> TOGGLE_NO_ARGS
                    [] OTHER -> DELETE_REMINDER_NO_ARGS)
            ELSE IF ~IsNumber(args[1]) THEN NOT_A_NUMBER
            ELSE IF handler = "deletereminder" THEN BAD_REMINDER_NUMBER
            ELSE BAD_RESPONSE_NUMBER
      [] OTHER -> IF Len(args) < 2 THEN REMIND_USAGE ELSE INVALID_TIME

\* C4: every malformed request of an admin gets its corrective reply and leaves
\* the rule lists, the reminders and the scheduled jobs as they were.
C4_MalformedNoChange ==
    [][ (/\ out'.handler \in Restricted
         /\ out'.user \in admin_ids
         /\ Malformed(out'.handler, out'.user, out'.args)) =>
            /\ ReplyTexts(out') = <<Corrective(out'.handler, out'.args)>>
            /\ UNCHANGED <<auto_responses, reminders, job_queue>> ]_vars

\* an admin asks to delete reminder 3 of a list that holds fewer, with a job pending
C4_Witness ==
    /\ out.handler = "deletereminder" /\ out.user \in admin_ids
    /\ out.args = << <<"3">> >>
    /\ ReplyTexts(out) = <<BAD_REMINDER_NUMBER>>
    /\ user_reminders_of(reminders, out.user) # <<>>
    /\ job_queue.jobs # <<>>

(***************************************************************************)
(* The reminders alone, with a clock that moves inside remind_command      *)
(***************************************************************************)
TenSeconds == timedelta(0, 10, 0)
RemindTimeArgs == { <<T_0s, T_hi>>, <<T_1s, T_hi>>, <<T_10s, T_hi>>,
                    <<TOMORROW, T_hi>>, <<T_soon, T_hi>> }
IndexArgs == { <<<<"1">>>>, <<<<"2">>>> }

InitRemind == InitWith({{7}}, {NoFile}, BOOLEAN, {NOW0})
NextRemind ==
    \/ run({}, NoGap)
    \/ \E a \in RemindTimeArgs, g1 \in {NoGap, OneSecond}, g2 \in {NoGap, OneSecond},
          ok \in BOOLEAN : remind_command(7, 7, a, g1, g2, ok) /\ Capped
    \/ reminders_command(7, 7, <<>>)
    \/ \E a \in IndexArgs : delete_reminder_command(7, 7, a)
    \/ \E k \in 1..MaxJobs, ok \in BOOLEAN : send_reminder(k, ok)
    \/ \E step \in {TenSeconds, OneDay} : Tick(step)
SpecRemind == InitRemind /\ [][NextRemind]_vars

\* C5: a remind request whose parsed time is not later than the clock read by
\* the future check is turned down with nothing appended, saved or scheduled.
C5_NotFutureRejected ==
    [][ (/\ out'.handler = "remind"
         /\ "remind_time" \in DOMAIN out'
         /\ out'.remind_time.tag = "value"
         /\ ~dt_lt(out'.now_check, out'.remind_time.dt)) =>
            /\ ReplyTexts(out') = <<NOT_FUTURE>>
            /\ UNCHANGED <<auto_responses, reminders, data_file, job_queue>> ]_vars

\* "1s" is parsed, a second passes, and the comparison of line 609 finds the time no longer ahead
C5_Witness ==
    /\ out.handler = "remind" /\ out.args[1] = T_1s
    /\ "remind_time" \in DOMAIN out
    /\ out.remind_time.dt = out.now_check
    /\ ReplyTexts(out) = <<NOT_FUTURE>>
    /\ reminders # <<>>

\* C6 as claimed: a remind request that passes validation and schedules no job
\* leaves the reminder list as it was and tells the user that scheduling failed.
C6_RolledBack ==
    [][ (/\ out'.handler = "remind"
         /\ "remind_time" \in DOMAIN out'
         /\ out'.remind_time.tag = "value"
         /\ dt_lt(out'.now_check, out'.remind_time.dt)
         /\ job_queue'.jobs = job_queue.jobs) =>
            /\ ReplyTexts(out') \in {<<NO_JOB_QUEUE>>, <<SCHEDULE_ERROR>>}
            /\ reminders' = reminders ]_vars

\* the reminders held by the data file
FileReminders == IF data_file.exists THEN data_file.reminders ELSE <<>>

\* C7 as claimed: once the job of a reminder has run, that reminder is neither
\* in the reminder list nor in the data file, whatever the send did.
C7_OneShot ==
    out.handler = "send_reminder" =>
        /\ ~list_contains(reminders, out.reminder)
        /\ ~list_contains(FileReminders, [out.reminder EXCEPT !.datetime = isoformat(@)])

\* C8 as claimed: the job of a reminder that is no longer in the list sends
\* nothing, changes neither the list nor the data file, and raises nothing.
C8_DeletedJobNoOp ==
    [][ (/\ out'.handler = "send_reminder"
         /\ ~list_contains(reminders, out'.reminder)) =>
            /\ out'.replies = <<>>
            /\ out'.raised = "None"
            /\ UNCHANGED <<reminders, data_file>> ]_vars

(***************************************************************************)
(* The examples of the usage text of /remind (lines 589-596, 801-804) sent *)
(* as commands: context.args is the text after the command split at        *)
(* whitespace, so an example of two words arrives as two arguments.        *)
(***************************************************************************)
T_5m == <<"5", "m">>
T_2h == <<"2", "h">>
T_3d == <<"3", "d">>
T_9am == <<"9", "a", "m">>
T_date == <<"2", "0", "3", "0", "-", "1", "2", "-", "2", "5">>
T_time == <<"1", "0", ":", "3", "0">>

HelpExamples == { <<T_10s>>, <<T_5m>>, <<T_2h>>, <<T_3d>>, <<TOMORROW, T_9am>>,
                  <<T_date, T_time>> }
HelpMessages == { <<T_hi>>, <<T_yo, T_hi>> }
HelpArgs == { e \o m : e \in HelpExamples, m \in HelpMessages }

InitHelp == InitWith({{7}}, {NoFile}, {TRUE}, {NOW0})
NextHelp ==
    \/ run({}, NoGap)
    \/ \E a \in HelpArgs, ok \in BOOLEAN :
          remind_command(7, 7, a, NoGap, NoGap, ok) /\ Capped
    \/ reminders_command(7, 7, <<>>)
    \/ Tick(OneDay)
SpecHelp == InitHelp /\ [][NextHelp]_vars

\* the time each example of the usage text stands for, read at the given clock
HelpTime(example, clock) ==
    CASE example = <<T_10s>> -> later(clock, timedelta(0, 10, 0))
      [] example = <<T_5m>> -> later(clock, timedelta(0, 300, 0))
      [] example = <<T_2h>> -> later(clock, timedelta(0, 7200, 0))
      [] example = <<T_3d>> -> later(clock, timedelta(3, 0, 0))
      [] example = <<TOMORROW, T_9am>> ->
            [later(clock, OneDay) EXCEPT !.hour = 9, !.minute = 0, !.second = 0,
                                         !.microsecond = 0]
      [] example = <<T_date, T_time>> -> datetime(2030, 12, 25, 10, 30, 0, 0)

\* C9 as claimed: /remind followed by an example of the usage text and a message
\* appends, unless the scheduler fails, a reminder that fires at the time the
\* example stands for and whose message is the text after the example.
C9_HelpExamplesAccepted ==
    [][ \A e \in HelpExamples, m \in HelpMessages :
          (/\ out'.handler = "remind"
           /\ out'.args = e \o m
           /\ ReplyTexts(out') # <<SCHEDULE_ERROR>>) =>
              /\ ReplyTexts(out') = <<REMINDER_SET>>
              /\ reminders' = Append(reminders, Reminder(7, str_join(m), HelpTime(e, now), 7))
      ]_vars

(***************************************************************************)
(* parse_time called on relative times: digits and a unit letter in either *)
(* case, with or without blanks around them                                *)
(***************************************************************************)
ParseNumbers == { <<"0">>, <<"7">>, <<"1", "0">>, <<"0", "0", "7">>,
                  <<"9", "9", "9", "9", "9", "9", "9">> }
ParseUnits == {"s", "m", "h", "d", "S", "M", "H", "D"}
ParsePads == { <<>>, <<" ">> }
ParseInputs ==
    { l \o n \o <<u>> \o r : l \in ParsePads, n \in ParseNumbers, u \in ParseUnits,
                             r \in ParsePads }

\* a call of parse_time; the clock it read and what it returned or raised are kept
parse_time_call(time_str) ==
    /\ out' = Out("parse_time", 0, 0, <<time_str>>, <<>>)
                @@ [clock |-> now, result |-> parse_time(time_str, now)]
    /\ UNCHANGED <<admin_ids, auto_responses, reminders, data_file, store_ok,
                   job_queue, now, started, ticks>>

\* /remind with a count of days that fits the calendar and one that does not
T_7d == <<"7", "d">>
T_9999999d == <<"9", "9", "9", "9", "9", "9", "9", "d">>
OverflowArgs == { <<T_7d, T_hi>>, <<T_9999999d, T_hi>> }

InitParse == InitWith({{7}}, {NoFile}, {TRUE}, {NOW0})
NextParse ==
    \/ \E time_str \in ParseInputs : parse_time_call(time_str)
    \/ run({}, NoGap)
    \/ \E a \in OverflowArgs : remind_command(7, 7, a, NoGap, NoGap, TRUE) /\ Capped
    \/ \E step \in {OneSecond, OneDay} : Tick(step)
SpecParse == InitParse /\ [][NextParse]_vars

UnitSeconds(u) ==
    CASE u \in {"s", "S"} -> 1 [] u \in {"m", "M"} -> 60
      [] u \in {"h", "H"} -> 3600 [] u \in {"d", "D"} -> 86400

\* b is a exactly n units of u later
Elapsed(a, b, n, u) ==
    LET per   == SECONDS_PER_DAY \div UnitSeconds(u)
        total == dt_seconds(a) + (n % per) * UnitSeconds(u)
    IN  /\ _ymd2ord(b.year, b.month, b.day) =
               _ymd2ord(a.year, a.month, a.day) + (n \div per) + (total \div SECONDS_PER_DAY)
        /\ dt_seconds(b) = total % SECONDS_PER_DAY
        /\ b.microsecond = a.microsecond

\* C10 as claimed: parse_time of a number n and a unit letter, in either case and
\* with or without blanks around, returns the clock plus n of that unit.
C10_RelativeParsed ==
    \A l \in ParsePads, n \in ParseNumbers, u \in ParseUnits, r \in ParsePads :
        (out.handler = "parse_time" /\ out.args[1] = l \o n \o <<u>> \o r) =>
            /\ out.result.tag = "value"
            /\ Elapsed(out.clock, out.result.dt, str_int(n), u)

\* C13 as claimed: parse_time returns a timestamp or None and never raises, and
\* no /remind ends with an exception because of its time argument.
C13_NeverRaises ==
    /\ out.handler = "parse_time" => out.result.tag \in {"value", "None"}
    /\ out.handler = "remind" => out.raised = "None"

(***************************************************************************)
(* parse_time called on "tomorrow", on "tomorrow" with a time part and on  *)
(* the absolute formats, at clocks of several times of day                 *)
(***************************************************************************)
NOW_EVE == datetime(2026, 12, 31, 23, 59, 59, 999999)
NOW_LEAP == datetime(2028, 2, 28, 8, 30, 15, 0)
ParseClocks == {NOW0, NOW_EVE, NOW_LEAP}

T_2pm == <<"2", "p", "m">>
T_12am == <<"1", "2", "a", "m">>
T_12pm == <<"1", "2", "p", "m">>
T_1430 == <<"1", "4", ":", "3", "0">>
T_0905 == <<"0", "9", ":", "0", "5">>
DayParts == {T_9am, T_2pm, T_12am, T_12pm, T_1430, T_0905}
DaySeps == { <<>>, <<" ">>, <<" ", " ">> }
TomorrowInputs == { TOMORROW \o sep \o part : sep \in DaySeps, part \in DayParts }
AloneInputs == { TOMORROW, <<" ">> \o TOMORROW, TOMORROW \o <<" ">>,
                 <<"T">> \o Tail(TOMORROW) }

\* the timestamps written in the absolute inputs
AbsStamps ==
    { [year |-> 2024, month |-> 12, day |-> 25, hour |-> 10, minute |-> 30, second |-> 0],
      [year |-> 2030, month |-> 1, day |-> 2, hour |-> 3, minute |-> 4, second |-> 5],
      [year |-> 2028, month |-> 2, day |-> 29, hour |-> 23, minute |-> 59, second |-> 59] }
AbsFormats == 1..4
AbsText(f, t) ==
    LET ymd(a) == zero_pad(t.year, 4) \o a \o zero_pad(t.month, 2) \o a \o zero_pad(t.day, 2)
        dmy(a) == zero_pad(t.day, 2) \o a \o zero_pad(t.month, 2) \o a \o zero_pad(t.year, 4)
        hm     == <<" ">> \o zero_pad(t.hour, 2) \o <<":">> \o zero_pad(t.minute, 2)
    IN  CASE f = 1 -> ymd(<<"-">>) \o hm
          [] f = 2 -> ymd(<<"-">>) \o hm \o <<":">> \o zero_pad(t.second, 2)
          [] f = 3 -> dmy(<<"/">>) \o hm
          [] f = 4 -> dmy(<<"-">>) \o hm
AbsoluteInputs == { AbsText(f, t) : f \in AbsFormats, t \in AbsStamps }

InitDay == InitWith({{7}}, {NoFile}, {TRUE}, ParseClocks)
NextDay ==
    \/ \E time_str \in TomorrowInputs \cup AloneInputs : parse_time_call(time_str)
    \/ \E time_str \in AbsoluteInputs : parse_time_call(time_str)
    \/ \E step \in {OneSecond, OneDay} : Tick(step)
SpecDay == InitDay /\ [][NextDay]_vars

\* the calendar day after the day of dt, at h:mi:00.000000
DayAfter(dt, h, mi) ==
    LET last == dt.day = _days_in_month(dt.year, dt.month)
    IN  datetime(IF last /\ dt.month = 12 THEN dt.year + 1 ELSE dt.year,
                 IF ~last THEN dt.month ELSE IF dt.month = 12 THEN 1 ELSE dt.month + 1,
                 IF last THEN 1 ELSE dt.day + 1,
                 h, mi, 0, 0)

\* the hour and minute each time part stands for
PartHour(part) ==
    CASE part = T_9am -> 9 [] part = T_2pm -> 14 [] part = T_12am -> 0
      [] part = T_12pm -> 12 [] part = T_1430 -> 14 [] part = T_0905 -> 9
PartMinute(part) ==
    CASE part = T_1430 -> 30 [] part = T_0905 -> 5 [] OTHER -> 0

\* C11 as claimed: parse_time of "tomorrow" followed, with or without blanks, by
\* an am/pm hour or an HH:MM returns the next calendar day at that time, seconds
\* zeroed.
C11_TomorrowAtTime ==
    \A sep \in DaySeps, part \in DayParts :
        (out.handler = "parse_time" /\ out.args[1] = TOMORROW \o sep \o part) =>
            out.result = Value(DayAfter(out.clock, PartHour(part), PartMinute(part)))

\* C12: parse_time of "tomorrow" alone (in any case, blanks around) returns the
\* day after the clock's date at 09:00:00.000000, whatever the clock's time of day.
C12_TomorrowAlone ==
    (out.handler = "parse_time" /\ out.args[1] \in AloneInputs) =>
        out.result = Value(DayAfter(out.clock, 9, 0))

\* "tomorrow" asked one microsecond before the year ends
C12_Witness ==
    /\ out.handler = "parse_time" /\ out.args[1] = TOMORROW
    /\ out.clock = NOW_EVE
    /\ out.result = Value(datetime(2027, 1, 1, 9, 0, 0, 0))

(***************************************************************************)
(* Scheduling: /remind and the start-up scheduling of the reminders in the *)
(* data file, with time passing between the clock reads of /remind         *)
(***************************************************************************)
SchedArgs == { <<T_1s, T_hi>>, <<T_10s, T_hi>>, <<TOMORROW, T_yo>> }
\* a data file that holds only the reminder of File1 that is not due yet
FileFuture == [File1 EXCEPT !.reminders = <<File1.reminders[2]>>]
InitSched == InitWith({{7}}, {File1, FileFuture}, {TRUE}, {NOW0})
NextSched ==
    \/ \E failing \in {{}, {2}}, gap \in {NoGap, TenSeconds} :
          run(failing, gap) /\ ticks' <= MaxTicks
    \/ \E a \in SchedArgs, g2 \in {NoGap, OneSecond}, ok \in BOOLEAN :
          remind_command(7, 7, a, NoGap, g2, ok) /\ Capped
    \/ \E k \in 1..MaxJobs : send_reminder(k, TRUE)
    \/ Tick(TenSeconds)
SpecSched == InitSched /\ [][NextSched]_vars

\* the jobs a step hands to the scheduler
NewJobs == { job_queue'.jobs[k] : k \in (Len(job_queue.jobs) + 1)..Len(job_queue'.jobs) }

\* C14: every job /remind or setup_jobs hands to the scheduler carries a timedelta
\* which, added to the clock read when the delay was computed, gives the fire time.
C14_DelayIsDuration ==
    [][ out'.handler \in {"remind", "run"} =>
          \A job \in NewJobs :
              /\ DOMAIN job.when = {"days", "seconds", "microseconds"}
              /\ dt_add(now', job.when) = Value(job.original_time)
              /\ job.original_time = job.reminder.datetime ]_vars

\* a reminder of the data file scheduled at start-up and one scheduled by /remind
\* a second after its time was parsed
C14_Witness ==
    /\ out.handler = "remind" /\ ReplyTexts(out) = <<REMINDER_SET>>
    /\ out.now_delay # out.now_check
    /\ Len(job_queue.jobs) = 2
    /\ job_queue.jobs[1].name[1] = "startup_reminder"
    /\ job_queue.jobs[1].when = timedelta(0, 10, 0)
    /\ job_queue.jobs[2].when = timedelta(0, 9, 0)

\* a reminder whose time is not after the earliest clock of these runs: it has
\* passed at whatever moment the bot starts
Overdue(reminder) == dt_le(reminder.datetime, NOW0)

\* the positions of the reminder list whose time is after the clock
FuturePositions == {k \in 1..Len(reminders) : dt_lt(now, reminders[k].datetime)}

\* the jobs of the next state that setup_jobs made for position k of the list
StartupJobsFor(k) ==
    {j \in 1..Len(job_queue'.jobs) :
        /\ job_queue'.jobs[j].name = <<"startup_reminder", k - 1, 0>>
        /\ job_queue'.jobs[j].reminder = reminders[k]}

td_positive(td) == td.days > 0 \/ (td.days = 0 /\ (td.seconds > 0 \/ td.microseconds > 0))

\* C24 as claimed: every job remind_command or setup_jobs hands to the scheduler
\* carries a delay that is strictly positive, however the clock moves between the
\* reads of parse_time, of the future check and of the delay.
C24_PositiveDelay ==
    [][ out'.handler \in {"remind", "run"} =>
          \A job \in NewJobs : td_positive(job.when) ]_vars

(***************************************************************************)
(* The rule commands on lists of up to MaxListed rules, for two admins, one *)
(* of whom has a rule in the data file                                     *)
(***************************************************************************)
MaxListed == 3

T_yo_hi_no == <<"y", "o", "|", "h", "i", "|", "n", "o">>
T_hi_no == <<"h", "i", "|", "n", "o">>
AddArgs == { <<T_hi, T_bar, T_yo>>, <<T_yo_hi_no>> }
ListedArgs == { <<<<"1">>>>, <<<<"2">>>>, <<<<"3">>>> }

CappedRules ==
    \A u \in DOMAIN auto_responses' : Len(auto_responses'[u]) <= MaxListed

InitRules == InitWith({{7, 8}}, {NoFile, File1}, {FALSE}, {NOW0})
NextRules ==
    \/ run({}, NoGap)
    \/ \E a \in AddArgs : add_response_command(7, 7, a) /\ CappedRules
    \/ \E a \in AddArgs : add_exact_response_command(7, 7, a) /\ CappedRules
    \/ \E u \in Users : list_responses_command(u, u, <<>>)
    \/ \E u \in Users, a \in ListedArgs : delete_response_command(u, u, a)
    \/ \E u \in Users, a \in ListedArgs : toggle_response_command(u, u, a)
SpecRules == InitRules /\ [][NextRules]_vars

\* the caller's list before and after a step, and the lists of everybody else
OldList == responses_of(auto_responses, out'.user)
NewList == responses_of(auto_responses', out'.user)
OthersUnchanged ==
    \A u \in (DOMAIN auto_responses \cup DOMAIN auto_responses') \ {out'.user} :
        responses_of(auto_responses', u) = responses_of(auto_responses, u)
Succeeded(texts) == ReplyTexts(out') \in {<<t>> : t \in texts}
WithoutFlag(rule) == [rule EXCEPT !.enabled = TRUE]

\* C15: an add appends at the end, a successful deleteresponse n removes exactly
\* the rule at position n, a toggle keeps every rule in place, listresponses
\* numbers the rules by position, and no other command changes a rule list.
C15_InsertionOrder ==
    [][ /\ Succeeded({ADDED, ADDED_EXACT}) =>
              /\ Len(NewList) = Len(OldList) + 1
              /\ SubSeq(NewList, 1, Len(OldList)) = OldList
              /\ OthersUnchanged
        /\ Succeeded({DELETED}) =>
              LET n == NumberOf(out'.args[1])
              IN  /\ n \in 1..Len(OldList)
                  /\ Len(NewList) = Len(OldList) - 1
                  /\ \A i \in 1..(n - 1) : NewList[i] = OldList[i]
                  /\ \A i \in n..Len(NewList) : NewList[i] = OldList[i + 1]
                  /\ out'.replies[1].arg = OldList[n].trigger
                  /\ OthersUnchanged
        /\ Succeeded({TOGGLED_ON, TOGGLED_OFF}) =>
              /\ Len(NewList) = Len(OldList)
              /\ \A i \in 1..Len(OldList) : WithoutFlag(NewList[i]) = WithoutFlag(OldList[i])
              /\ OthersUnchanged
        /\ Succeeded({LIST_HEADER}) =>
              /\ Len(out'.replies[1].arg) = Len(OldList)
              /\ \A i \in 1..Len(OldList) :
                    /\ out'.replies[1].arg[i].number = i
                    /\ out'.replies[1].arg[i].trigger = OldList[i].trigger
                    /\ out'.replies[1].arg[i].response = OldList[i].response
        /\ ~Succeeded({ADDED, ADDED_EXACT, DELETED, TOGGLED_ON, TOGGLED_OFF}) =>
              UNCHANGED auto_responses
      ]_vars

\* the second of three rules deleted: the first and the third remain, in order
C15_Witness ==
    /\ out.handler = "deleteresponse" /\ out.user = 7 /\ out.args = <<<<"2">>>>
    /\ ReplyTexts(out) = <<DELETED>>
    /\ out.replies[1].arg = T_yo
    /\ Len(auto_responses[7]) = 2
    /\ auto_responses[7][1].trigger = T_hi /\ ~auto_responses[7][1].exact_match
    /\ auto_responses[7][2].trigger = T_hi /\ auto_responses[7][2].exact_match

\* C19: a successful toggleresponse n negates the enabled flag of the rule at
\* position n of the caller's list and changes no other field, rule, list,
\* reminder or job; toggling the same n again therefore restores the list.
C19_ToggleFlipsOnly ==
    [][ Succeeded({TOGGLED_ON, TOGGLED_OFF}) =>
          LET n == NumberOf(out'.args[1])
          IN  /\ out'.handler = "toggleresponse"
              /\ n \in 1..Len(OldList)
              /\ Len(NewList) = Len(OldList)
              /\ \A i \in (1..Len(OldList)) \ {n} : NewList[i] = OldList[i]
              /\ NewList[n].enabled = ~OldList[n].enabled
              /\ WithoutFlag(NewList[n]) = WithoutFlag(OldList[n])
              /\ [NewList EXCEPT ![n].enabled = ~@] = OldList
              /\ (ReplyTexts(out') = <<TOGGLED_ON>>) = NewList[n].enabled
              /\ OthersUnchanged
              /\ UNCHANGED <<reminders, job_queue>> ]_vars

\* the case-sensitive rule user 8 has in the data file switched on, next to the
\* rules of user 7
C19_Witness ==
    /\ out.handler = "toggleresponse" /\ out.user = 8 /\ out.args = <<<<"1">>>>
    /\ ReplyTexts(out) = <<TOGGLED_ON>>
    /\ auto_responses[8] = <<[trigger |-> T_yo, response |-> T_hi, exact_match |-> FALSE,
                              case_sensitive |-> TRUE, enabled |-> TRUE]>>
    /\ 7 \in DOMAIN auto_responses /\ Len(auto_responses[7]) = 2

\* the trigger and the response each argument list of the add commands stands for
AddedTrigger(args) ==
    CASE args = <<T_hi, T_bar, T_yo>> -> T_hi [] args = <<T_yo_hi_no>> -> T_yo
AddedResponse(args) ==
    CASE args = <<T_hi, T_bar, T_yo>> -> T_yo [] args = <<T_yo_hi_no>> -> T_hi_no

\* C20: a successful addresponse (addresponse_exact) appends to the caller's list
\* one rule: the trimmed text before the first bar as trigger, the trimmed text
\* after it as response, exact_match false (true), case_sensitive false, enabled.
C20_AddAppendsRule ==
    [][ Succeeded({ADDED, ADDED_EXACT}) =>
          /\ out'.handler \in {"addresponse", "addresponse_exact"}
          /\ (out'.handler = "addresponse") = (ReplyTexts(out') = <<ADDED>>)
          /\ NewList = Append(OldList,
                 [trigger |-> AddedTrigger(out'.args),
                  response |-> AddedResponse(out'.args),
                  exact_match |-> out'.handler = "addresponse_exact",
                  case_sensitive |-> FALSE, enabled |-> TRUE])
          /\ OthersUnchanged ]_vars

\* "yo|hi|no" added after a rule: trigger "yo", response "hi|no"
C20_Witness ==
    /\ out.handler = "addresponse" /\ out.args = <<T_yo_hi_no>>
    /\ ReplyTexts(out) = <<ADDED>>
    /\ Len(auto_responses[7]) = 2
    /\ auto_responses[7][2] = [trigger |-> T_yo, response |-> T_hi_no,
                               exact_match |-> FALSE, case_sensitive |-> FALSE,
                               enabled |-> TRUE]

(***************************************************************************)
(* The data file: commands that save and restarts that load the file       *)
(* again, at a clock with microseconds                                     *)
(***************************************************************************)
StoreRemindArgs == { <<T_1s, T_hi>>, <<TOMORROW, T_yo>> }
InitStore == InitWith({{7, 8}}, {NoFile, FileFuture}, {TRUE}, {NOW_EVE})
NextStore ==
    \/ run({}, NoGap)
    \/ restart
    \/ add_response_command(7, 7, <<T_hi_bar_yo>>) /\ Capped
    \/ \E u \in Users : toggle_response_command(u, u, <<<<"1">>>>)
    \/ \E u \in Users : delete_response_command(u, u, <<<<"1">>>>)
    \/ \E a \in StoreRemindArgs : remind_command(7, 7, a, NoGap, NoGap, TRUE) /\ Capped
    \/ Tick(OneSecond)
SpecStore == InitStore /\ [][NextStore]_vars

\* C16: the rule lists and the reminder list that load_data reads from what
\* save_data writes are the lists that were saved: same users, same rules in the
\* same order, same reminders with owner, message, fire time, recurrence and chat.
C16_RoundTrip ==
    LET file == save_data(NoFile, TRUE, auto_responses, reminders)
    IN  /\ load_auto_responses(file) = auto_responses
        /\ load_reminders(file) = reminders

\* after a restart: the rule of user 7, the emptied list of user 8 and a reminder
\* due at a time with microseconds, all read back from the file
C16_Witness ==
    /\ out.handler = "init" /\ ~started
    /\ data_file = save_data(NoFile, TRUE, auto_responses, reminders)
    /\ 7 \in DOMAIN auto_responses /\ Len(auto_responses[7]) = 1
    /\ 8 \in DOMAIN auto_responses /\ auto_responses[8] = <<>>
    /\ \E i \in 1..Len(reminders) : reminders[i].datetime.microsecond # 0

\* the timestamp written in an absolute input: the formats without seconds give 0
AbsValue(f, t) ==
    datetime(t.year, t.month, t.day, t.hour, t.minute, IF f = 2 THEN t.second ELSE 0, 0)

\* C17: parse_time of an input in one of the four absolute formats returns the
\* timestamp written in it, at every clock.
C17_AbsoluteLiteral ==
    \A f \in AbsFormats, t \in AbsStamps :
        (out.handler = "parse_time" /\ out.args[1] = AbsText(f, t)) =>
            out.result = Value(AbsValue(f, t))

\* "29-02-2028 23:59" parsed at a clock other than the first one
C17_Witness ==
    /\ out.handler = "parse_time"
    /\ out.args[1] = <<"2", "9", "-", "0", "2", "-", "2", "0", "2", "8", " ",
                       "2", "3", ":", "5", "9">>
    /\ out.clock = later(NOW_LEAP, OneDay)
    /\ out.result = Value(datetime(2028, 2, 29, 23, 59, 0, 0))

(***************************************************************************)
(* The bot as shipped: the list in _is_admin is empty (lines 346-349)      *)
(***************************************************************************)
InitShipped == InitWith({{}}, {NoFile, File1}, BOOLEAN, {NOW0})
SpecShipped == InitShipped /\ [][Next]_vars

\* C18: with the shipped empty list nobody is an admin: every restricted command
\* is denied and changes nothing, and no step other than a scheduled job changes
\* a rule list or the reminder list.
C18_ShippedDeniesAll ==
    [][ /\ admin_ids = {} /\ admin_ids' = {}
        /\ out'.handler \in Restricted =>
              /\ ReplyTexts(out') = <<DENIED>>
              /\ UNCHANGED <<auto_responses, reminders, data_file, job_queue>>
        /\ out'.handler # "send_reminder" => UNCHANGED <<auto_responses, reminders>>
      ]_vars

\* /remind of user 7 denied while the reminders of the data file are still there
C18_Witness ==
    /\ admin_ids = {}
    /\ out.handler = "remind" /\ out.user = 7 /\ out.args = <<T_10s, T_hi>>
    /\ ReplyTexts(out) = <<DENIED>>
    /\ reminders = load_reminders(File1)
    /\ auto_responses = load_auto_responses(File1)

(***************************************************************************)
(* Deleting reminders from a list that holds equal ones: two users, a data *)
(* file whose first and third reminder have the same field values, and     *)
(* /remind tomorrow, which gives equal reminders when repeated              *)
(***************************************************************************)
TOMORROW_9 == datetime(2026, 11, 4, 9, 0, 0, 0)

FileReminder(user, message, dt) ==
    [user_id |-> user, message |-> message, datetime |-> isoformat(dt),
     recurring |-> "None", chat_id |-> user]

FileDup ==
    [exists |-> TRUE,
     auto_responses |-> << >>,
     reminders |-> <<FileReminder(7, T_hi, TOMORROW_9), FileReminder(8, T_yo, TOMORROW_9),
                     FileReminder(7, T_hi, TOMORROW_9), FileReminder(7, T_yo, TOMORROW_9)>>]

DeleteArgs == { <<<<"1">>>>, <<<<"2">>>>, <<<<"3">>>>, <<<<"4">>>> }
DeleteRemindArgs == { <<TOMORROW, T_hi>>, <<TOMORROW, T_yo>> }

InitDelete == InitWith({{7, 8}}, {NoFile, FileDup}, {TRUE}, {NOW0})
NextDelete ==
    \/ run({}, NoGap)
    \/ \E u \in Users, a \in DeleteRemindArgs :
          remind_command(u, u, a, NoGap, NoGap, TRUE) /\ Capped
    \/ \E u \in Users : reminders_command(u, u, <<>>)
    \/ \E u \in Users, a \in DeleteArgs : delete_reminder_command(u, u, a)
SpecDelete == InitDelete /\ [][NextDelete]_vars

\* the position in the list `rem` of the n-th reminder of `user`
OwnPosition(rem, user, n) ==
    CHOOSE p \in 1..Len(rem) :
        /\ rem[p].user_id = user
        /\ Cardinality({q \in 1..p : rem[q].user_id = user}) = n

\* the list `rem` with position p taken out, the rest in place
TakenOut(rem, p) ==
    [i \in 1..(Len(rem) - 1) |-> IF i < p THEN rem[i] ELSE rem[i + 1]]

\* C21 as claimed: a successful deletereminder n of user u takes out of the reminder list
\* exactly the n-th of u's own reminders in list order, the one the reminders
\* command shows under n, and leaves all the others where they were, also when
\* the list holds reminders with equal field values.
C21_DeletesNthOwn ==
    [][ (/\ out'.handler = "deletereminder"
         /\ ReplyTexts(out') = <<DELETED_REMINDER>>) =>
            LET u == out'.user
                n == NumberOf(out'.args[1])
                p == OwnPosition(reminders, u, n)
            IN  /\ reminders' = TakenOut(reminders, p)
                /\ out'.replies[1].arg = reminders[p].message
                /\ out'.reminder_to_delete = user_reminders_of(reminders, u)[n] ]_vars

(***************************************************************************)
(* Adding rules whose trigger or response is empty after the trimming,     *)
(* from empty rule lists                                                   *)
(***************************************************************************)
T_bar_yo == <<"|", "y", "o">>
T_hi_bar == <<"h", "i", "|">>
EmptyPartArgs == { <<T_bar>>, <<T_bar_yo>>, <<T_hi_bar>>, <<T_hi, T_bar, T_yo>> }

InitEmpty == InitWith({{7}}, {NoFile}, {FALSE}, {NOW0})
NextEmpty ==
    \/ run({}, NoGap)
    \/ \E a \in EmptyPartArgs : add_response_command(7, 7, a) /\ CappedRules
    \/ \E a \in EmptyPartArgs : add_exact_response_command(7, 7, a) /\ CappedRules
    \/ list_responses_command(7, 7, <<>>)
    \/ \E a \in ListedArgs : delete_response_command(7, 7, a)
    \/ \E t \in Texts : handle_message(7, 7, t)
SpecEmpty == InitEmpty /\ [][NextEmpty]_vars

\* C23 as claimed: starting from empty rule lists, every stored rule has a
\* trigger and a response that are not empty, whatever commands were sent.
C23_NoEmptyRule ==
    \A u \in DOMAIN auto_responses :
        \A i \in 1..Len(auto_responses[u]) :
            /\ auto_responses[u][i].trigger # <<>>
            /\ auto_responses[u][i].response # <<>>

(***************************************************************************)
(* Two users who both manage rules and reminders and both send messages    *)
(***************************************************************************)
IsolationRuleArgs == { <<T_hi_bar_yo>> }
IsolationRemindArgs == { <<TOMORROW, T_hi>> }
IsolationIndexArgs == { <<<<"1">>>> }

InitIsolation == InitWith({{7, 8}}, {File1}, {TRUE}, {NOW0})
NextIsolation ==
    \/ run({}, NoGap)
    \/ \E u \in Users, a \in IsolationRuleArgs : add_response_command(u, u, a) /\ Capped
    \/ \E u \in Users, a \in IsolationRuleArgs :
          add_exact_response_command(u, u, a) /\ Capped
    \/ \E u \in Users : list_responses_command(u, u, <<>>)
    \/ \E u \in Users, a \in IsolationIndexArgs : delete_response_command(u, u, a)
    \/ \E u \in Users, a \in IsolationIndexArgs : toggle_response_command(u, u, a)
    \/ \E u \in Users, a \in IsolationRemindArgs, ok \in BOOLEAN :
          remind_command(u, u, a, NoGap, NoGap, ok) /\ Capped
    \/ \E u \in Users : reminders_command(u, u, <<>>)
    \/ \E u \in Users, a \in IsolationIndexArgs : delete_reminder_command(u, u, a)
    \/ \E u \in Users, t \in Texts : handle_message(u, u, t)
SpecIsolation == InitIsolation /\ [][NextIsolation]_vars

\* the rule list and the reminders a user owns, read off the state
RulesOwned(ar, u) == IF u \in DOMAIN ar THEN ar[u] ELSE <<>>
RemindersOwned(rem, u) == SelectSeq(rem, LAMBDA r : r.user_id = u)

\* rule lists that differ from `ar` in the list of one user other than u: that
\* list emptied, or made of an enabled rule that matches `text` exactly
OtherRuleLists(ar, u, text) ==
    { (v :> list) @@ ar :
        v \in Users \ {u},
        list \in { <<>>, <<AutoResponse(text, T_no, TRUE)>> } }

\* C25: a command of user u leaves the rule list and the reminders of every
\* other user as they were, and the replies to a message of u are the same
\* whatever the rule lists of the other users hold.
C25_Isolation ==
    [][ /\ out'.handler \in Restricted =>
              \A v \in Users \ {out'.user} :
                  /\ RulesOwned(auto_responses', v) = RulesOwned(auto_responses, v)
                  /\ RemindersOwned(reminders', v) = RemindersOwned(reminders, v)
        /\ out'.handler = "message" =>
              /\ UNCHANGED <<auto_responses, reminders>>
              /\ \A ar \in OtherRuleLists(auto_responses, out'.user, out'.args[1]) :
                    handle_message_replies(ar, out'.user, out'.chat, out'.args[1])
                        = out'.replies ]_vars

\* user 8, who has no rule, sends a text that an enabled rule of user 7 matches
\* and gets no reply, while both users hold reminders
C25_Witness ==
    /\ out.handler = "message" /\ out.user = 8
    /\ out.replies = <<>>
    /\ RulesOwned(auto_responses, 8) = <<>>
    /\ RulesOwned(auto_responses, 7) # <<>>
    /\ handle_message_replies(auto_responses, 7, 7, out.args[1]) # <<>>
    /\ RemindersOwned(reminders, 7) # <<>>
    /\ RemindersOwned(reminders, 8) # <<>>

(***************************************************************************)
(* The life of a reminder in a process that keeps running: the scheduler   *)
(* runs every job once its delay has passed and the gateway accepts every  *)
(* send.  Reminders are accepted until the clock has moved MaxTicks times.  *)
(***************************************************************************)
LiveArgs == { <<T_10s, T_hi>>, <<TOMORROW, T_yo>> }

InitLive == InitWith({{7}}, {NoFile}, {TRUE}, {NOW0})
JobRuns == \E k \in 1..MaxJobs : send_reminder(k, TRUE)
JobWaits == \E k \in 1..MaxJobs : job_wait(k)
NextLive ==
    \/ run({}, NoGap)
    \/ \E a \in LiveArgs :
          remind_command(7, 7, a, NoGap, NoGap, TRUE) /\ Capped /\ ticks < MaxTicks
    \/ reminders_command(7, 7, <<>>)
    \/ \E a \in IndexArgs : delete_reminder_command(7, 7, a)
    \/ JobRuns
    \/ JobWaits
SpecLive == InitLive /\ [][NextLive]_vars /\ WF_vars(JobWaits) /\ WF_vars(JobRuns)

\* the clocks these runs can show after at most n moves, and the reminders that
\* /remind can accept at them
RECURSIVE LiveClocks(_)
LiveClocks(n) ==
    IF n = 0 THEN {NOW0}
    ELSE LiveClocks(n - 1)
         \cup {parse_time(a[1], c).dt : a \in LiveArgs, c \in LiveClocks(n - 1)}
LiveReminders ==
    {Reminder(7, str_join(Tail(a)), parse_time(a[1], c).dt, 7) :
        a \in LiveArgs, c \in LiveClocks(MaxTicks - 1)}

\* /remind has just accepted reminder r with the confirmation
Accepted(r) ==
    /\ out.handler = "remind"
    /\ ReplyTexts(out) = <<REMINDER_SET>>
    /\ Reminder(out.user, out.replies[1].arg.message, out.remind_time.dt, out.chat) = r

\* a job has just sent reminder r to its chat and r is no longer in the list
SentAndRemoved(r) ==
    /\ out.handler = "send_reminder"
    /\ out.reminder = r
    /\ out.replies = <<Message(r.chat_id, REMINDER_TEXT, r.message)>>
    /\ ~list_contains(reminders, r)

\* /deletereminder has just deleted reminder r
Deleted(r) ==
    /\ out.handler = "deletereminder"
    /\ ReplyTexts(out) = <<DELETED_REMINDER>>
    /\ out.reminder_to_delete = r

\* C26: in a process that keeps running, with a scheduler that runs every job
\* and sends that succeed, every reminder accepted by /remind with the
\* confirmation is, unless it is deleted, eventually sent to its chat and gone
\* from the reminder list.
C26_AcceptedIsDelivered ==
    \A r \in LiveReminders : Accepted(r) ~> (SentAndRemoved(r) \/ Deleted(r))

\* the job of an accepted reminder ran after the clock reached its time: the
\* reminder was sent and the list is empty again
C26_Witness ==
    /\ out.handler = "send_reminder"
    /\ out.reminder \in LiveReminders
    /\ out.replies = <<Message(7, REMINDER_TEXT, out.reminder.message)>>
    /\ dt_le(out.reminder.datetime, now)
    /\ ticks >= 1
    /\ reminders = <<>>

(***************************************************************************)
(* The data file against the lists in memory, with a store that can fail   *)
(* and recover and a job queue that can be missing                         *)
(***************************************************************************)
PersistRuleArgs == { <<T_hi_bar_yo>> }
PersistRemindArgs == { <<T_10s, T_hi>> }
PersistIndexArgs == { <<<<"1">>>> }

InitPersist == InitWith({{7}}, {NoFile}, BOOLEAN, {NOW0})
NextPersist ==
    \/ run({}, NoGap)
    \/ \E a \in PersistRuleArgs : add_response_command(7, 7, a) /\ Capped
    \/ \E a \in PersistIndexArgs : delete_response_command(7, 7, a)
    \/ \E a \in PersistIndexArgs : toggle_response_command(7, 7, a)
    \/ \E a \in PersistRemindArgs, ok \in BOOLEAN :
          remind_command(7, 7, a, NoGap, NoGap, ok) /\ Capped
    \/ \E a \in PersistIndexArgs : delete_reminder_command(7, 7, a)
    \/ \E k \in 1..MaxJobs, ok \in BOOLEAN : send_reminder(k, ok)
    \/ Tick(TenSeconds)
    \/ StoreFlip
SpecPersist == InitPersist /\ [][NextPersist]_vars

\* the data file read back gives the rule lists `ar` and the reminders `rem`
InSync(ar, rem, file) ==
    /\ load_auto_responses(file) = ar
    /\ load_reminders(file) = rem

\* the runs of handlers and jobs that can change a list
Mutators == {"addresponse", "addresponse_exact", "deleteresponse", "toggleresponse",
             "remind", "deletereminder", "send_reminder"}

\* C27: while the store is available, a handler or a job that changes a rule
\* list or the reminder list leaves the data file equal to the lists in memory
\* when it completes, one that finds them equal leaves them equal, and they
\* are equal where remind_command awaits the gateway between its two changes
\* of the list (the scheduling failure).
C27_PersistedAtAwait ==
    [][ (store_ok /\ out'.handler \in Mutators) =>
          /\ (\/ InSync(auto_responses, reminders, data_file)
              \/ <<auto_responses, reminders>>' # <<auto_responses, reminders>>)
                 => InSync(auto_responses', reminders', data_file')
          /\ "awaited" \in DOMAIN out' =>
                 InSync(auto_responses, out'.awaited.reminders, out'.awaited.data_file) ]_vars

\* with the store available and a rule stored, a remind request whose scheduling
\* failed: file and memory both held the new reminder at the reply, and both hold
\* it no more
C27_Witness ==
    /\ out.handler = "remind" /\ ReplyTexts(out) = <<SCHEDULE_ERROR>>
    /\ store_ok
    /\ auto_responses # <<>>
    /\ out.awaited.reminders # reminders
    /\ load_reminders(out.awaited.data_file) = out.awaited.reminders
    /\ InSync(auto_responses, reminders, data_file)

====
